---- MODULE Spec2Model ----
(***************************************************************************)
(* Model of hydrogen-wishlist: the reconciliation utilities of             *)
(* src/utils/merge.ts (mergeWishlists, createItemKey, findNewItems,        *)
(* deduplicateItems and the five sort views), the storage adapter of       *)
(* src/utils/storage.ts with the record validation isValidWishlistItem,    *)
(* and the WishlistProvider.                                               *)
(*                                                                         *)
(* A WishlistItem is a record.  An optional property is a tuple: <<>> when *)
(* the property is missing from the object, <<v>> when it is present.      *)
(* Strings are TLA+ strings, so that createItemKey is the concatenation    *)
(* the code performs.  Arrays are sequences; a Map is the sequence of its  *)
(* entries in insertion order.                                             *)
(***************************************************************************)
EXTENDS Integers, Sequences, FiniteSets, TLC

VARIABLES
    guestItems,     \* mergeWishlists' first argument (findNewItems' `before`)
    customerItems,  \* mergeWishlists' second argument (findNewItems' `after`)
    op,             \* the utility that ran last ("init": none yet)
    result,         \* the array that utility returned
    prev,           \* the array the previous utility returned (on the heap
                    \* of merge.ts: the references returned so far)
    heap,           \* the arrays, and objects, a utility can reach: heap[r]
    ret,            \* the array reference a utility returned (0: none yet)
    ls,             \* window.localStorage as the storage adapter sees it
    config,         \* the WishBridgeConfig handed to the WishlistProvider
    itemsState,     \* WishlistProvider state `items`: the in-memory collection
    isLoading,      \* WishlistProvider state
    isSyncing,      \* WishlistProvider state
    error,          \* WishlistProvider state (<<>>: undefined, <<msg>>: msg)
    calls,          \* the asynchronous calls awaiting their remote response
    log             \* history: requests issued, operations started and settled

utilVars == <<guestItems, customerItems, op, result, prev, heap, ret>>

ctlVars == <<config, itemsState, isLoading, isSyncing, error, calls, log>>

vars == <<utilVars, ls, ctlVars>>

\* Longest guest list and longest customer list drawn as inputs.
MaxLen == 2

\* Longest list handed to a sort view.
MaxSortLen == 3

(***************************************************************************)
(* Items                                                                   *)
(***************************************************************************)

Missing == <<>>

Some(v) == <<v>>

Price(amount) == Some([amount |-> amount, currencyCode |-> "USD"])

\* interface WishlistItem; id is the pair <<productId, variantId>>
WishlistItem(id, productTitle, productHandle, variantTitle, image, price, addedAt) ==
    [productId |-> id[1], variantId |-> id[2],
     productTitle |-> productTitle, productHandle |-> productHandle,
     variantTitle |-> variantTitle, image |-> image, price |-> price,
     addedAt |-> addedAt]

\* The (productId, variantId) pairs of the customer items.
IdPairs == { <<"p1", Missing>>, <<"p1", Some("v1")>>, <<"p2", Missing>> }

\* The pairs of the guest items: "default" is a variantId like any other
\* string.
GuestIdPairs == IdPairs \cup { <<"p1", Some("default")>> }

\* addedAt of a guest item: Date.prototype.toISOString writes milliseconds.
GuestDates == { "2024-01-10T00:00:00.000Z", "2024-01-20T00:00:00.000Z" }

\* addedAt of a customer item, as the backend (and the tests) write it.
CustomerDates == { "2024-01-10T00:00:00Z", "2024-01-15T00:00:00Z" }

\* A guest item, as getStoredItems reads it back: add() was given a product
\* without handle, variant title or image, and JSON drops such properties.
GuestItem(id, addedAt) ==
    WishlistItem(id, "Guest title", Missing, Missing, Missing,
                 Price("10.00"), addedAt)

\* A customer item, as the backend returns it.
CustomerItem(id, addedAt) ==
    WishlistItem(id, "Customer title", Some("handle"),
                 Some("Variant"), Some([url |-> "https://cdn/img.png"]),
                 Price("30.00"), addedAt)

GuestUniverse == { GuestItem(id, d) : id \in GuestIdPairs, d \in GuestDates }

CustomerUniverse == { CustomerItem(id, d) : id \in IdPairs, d \in CustomerDates }

SeqsUpTo(S, n) == UNION { [1..k -> S] : k \in 0..n }

Range(s) == { s[i] : i \in 1..Len(s) }

(***************************************************************************)
(* Dates: new Date(addedAt).getTime(), in days since 2024-01-01T00:00:00Z. *)
(* Two different strings may name the same instant.                        *)
(***************************************************************************)
DateGetTime(addedAt) ==
    CASE addedAt = "2024-01-01T00:00:00Z"     -> 0
      [] addedAt = "2024-01-10T00:00:00Z"     -> 9
      [] addedAt = "2024-01-10T00:00:00.000Z" -> 9
      [] addedAt = "2024-01-15T00:00:00Z"     -> 14
      [] addedAt = "2024-01-20T00:00:00.000Z" -> 19
      [] addedAt = "2024-02-01T00:00:00Z"     -> 31

(***************************************************************************)
(* createItemKey: `${item.productId}:${item.variantId ?? 'default'}`       *)
(***************************************************************************)
createItemKeyByDate(item) == item.productId \o ":" \o item.addedAt

createItemKey(item) ==
    item.productId \o ":" \o
        (IF item.variantId = Missing THEN "default" ELSE item.variantId[1])

(***************************************************************************)
(* Map<string, WishlistItem>: entries in insertion order.                  *)
(***************************************************************************)
MapHas(m, key) == \E i \in 1..Len(m) : m[i].key = key

MapGet(m, key) == m[CHOOSE i \in 1..Len(m) : m[i].key = key].value

MapSetAppend(m, key, value) == Append(m, [key |-> key, value |-> value])

\* Map.prototype.set: an existing key keeps its position.
MapSet(m, key, value) ==
    IF MapHas(m, key)
    THEN [i \in 1..Len(m) |->
            IF m[i].key = key THEN [key |-> key, value |-> value] ELSE m[i]]
    ELSE Append(m, [key |-> key, value |-> value])

MapValues(m) == [i \in 1..Len(m) |-> m[i].value]

(***************************************************************************)
(* mergeWishlists                                                          *)
(***************************************************************************)

SpreadExistingWins(existing, item) ==
    [existing EXCEPT !.addedAt = item.addedAt]

\* { ...existing, ...item, addedAt: item.addedAt }: item's own properties
\* override existing's.
SpreadMerge(existing, item) ==
    [productId     |-> item.productId,
     variantId     |-> IF item.variantId # Missing
                       THEN item.variantId ELSE existing.variantId,
     productTitle  |-> item.productTitle,
     productHandle |-> IF item.productHandle # Missing
                       THEN item.productHandle ELSE existing.productHandle,
     variantTitle  |-> IF item.variantTitle # Missing
                       THEN item.variantTitle ELSE existing.variantTitle,
     image         |-> IF item.image # Missing
                       THEN item.image ELSE existing.image,
     price         |-> IF item.price # Missing
                       THEN item.price ELSE existing.price,
     addedAt       |-> item.addedAt]

\* for (const item of customerItems) merged.set(createItemKey(item), item)
RECURSIVE SeedCustomer(_, _)
SeedCustomer(merged, items) ==
    IF items = <<>> THEN merged
    ELSE SeedCustomer(MapSet(merged, createItemKey(Head(items)), Head(items)),
                      Tail(items))

AddGuestSkipNew(merged, item) ==
    LET key == createItemKey(item) IN
    IF ~MapHas(merged, key) THEN merged
    ELSE LET existing == MapGet(merged, key) IN
         IF DateGetTime(item.addedAt) < DateGetTime(existing.addedAt)
         THEN MapSet(merged, key, SpreadMerge(existing, item))
         ELSE merged

AddGuestLater(merged, item) ==
    LET key == createItemKey(item) IN
    IF ~MapHas(merged, key) THEN MapSet(merged, key, item)
    ELSE LET existing == MapGet(merged, key) IN
         IF DateGetTime(item.addedAt) > DateGetTime(existing.addedAt)
         THEN MapSet(merged, key, SpreadMerge(existing, item))
         ELSE merged

AddGuestOnTie(merged, item) ==
    LET key == createItemKey(item) IN
    IF ~MapHas(merged, key) THEN MapSet(merged, key, item)
    ELSE LET existing == MapGet(merged, key) IN
         IF DateGetTime(item.addedAt) <= DateGetTime(existing.addedAt)
         THEN MapSet(merged, key, SpreadMerge(existing, item))
         ELSE merged

\* One iteration of the loop over guestItems.
AddGuest(merged, item) ==
    LET key == createItemKey(item) IN
    IF ~MapHas(merged, key) THEN MapSet(merged, key, item)
    ELSE LET existing == MapGet(merged, key) IN
         IF DateGetTime(item.addedAt) < DateGetTime(existing.addedAt)
         THEN MapSet(merged, key, SpreadMerge(existing, item))
         ELSE merged

RECURSIVE AddGuests(_, _)
AddGuests(merged, items) ==
    IF items = <<>> THEN merged
    ELSE AddGuests(AddGuest(merged, Head(items)), Tail(items))

\* (a, b) => new Date(b.addedAt).getTime() - new Date(a.addedAt).getTime()
CmpNewest(a, b) == DateGetTime(b.addedAt) - DateGetTime(a.addedAt)

\* (a, b) => new Date(a.addedAt).getTime() - new Date(b.addedAt).getTime()
CmpOldest(a, b) == DateGetTime(a.addedAt) - DateGetTime(b.addedAt)

\* parseFloat(price.amount), in cents.
ParseFloat(amount) ==
    CASE amount = "0.00"  -> 0
      [] amount = "10.00" -> 1000
      [] amount = "30.00" -> 3000

\* String.prototype.localeCompare on the titles of the inputs.
LocaleCompare(a, b) ==
    LET rank(t) == CASE t = "Apple" -> 1 [] t = "Mango" -> 2 [] t = "Zebra" -> 3
    IN  rank(a) - rank(b)

\* (a, b) => a.productTitle.localeCompare(b.productTitle)
CmpTitle(a, b) == LocaleCompare(a.productTitle, b.productTitle)

\* a.price ? parseFloat(a.price.amount) : Infinity; priceA - priceB.
\* Infinity - Infinity is NaN, which sort takes as 0; the sign is kept
\* otherwise.
CmpPriceLowToHigh(a, b) ==
    CASE a.price = Missing /\ b.price = Missing -> 0
      [] a.price = Missing /\ b.price # Missing -> 1
      [] a.price # Missing /\ b.price = Missing -> -1
      [] OTHER -> ParseFloat(a.price[1].amount) - ParseFloat(b.price[1].amount)

\* a.price ? parseFloat(a.price.amount) : 0; priceB - priceA.
CmpPriceHighToLow(a, b) ==
    LET priceA == IF a.price # Missing THEN ParseFloat(a.price[1].amount) ELSE 0
        priceB == IF b.price # Missing THEN ParseFloat(b.price[1].amount) ELSE 0
    IN  priceB - priceA

(***************************************************************************)
(* Array.prototype.sort with the comparator named cmp: stable; a negative  *)
(* comparator result puts a first.  A comparator result of NaN counts as 0.*)
(***************************************************************************)
Compare(cmp, a, b) ==
    CASE cmp = "newest"         -> CmpNewest(a, b)
      [] cmp = "oldest"         -> CmpOldest(a, b)
      [] cmp = "title"          -> CmpTitle(a, b)
      [] cmp = "priceLowToHigh" -> CmpPriceLowToHigh(a, b)
      [] cmp = "priceHighToLow" -> CmpPriceHighToLow(a, b)

StableSort(s, cmp) ==
    LET n == Len(s)
        \* the number of elements that come before s[i] in the result
        before(i) == Cardinality({ j \in 1..n :
                        \/ Compare(cmp, s[j], s[i]) < 0
                        \/ Compare(cmp, s[j], s[i]) = 0 /\ j < i })
    IN  [k \in 1..n |-> s[CHOOSE i \in 1..n : before(i) = k - 1]]

mergeWishlistsUnsorted(guest, customer) ==
    MapValues(AddGuests(SeedCustomer(<<>>, customer), guest))

mergeWishlists(guest, customer) ==
    StableSort(MapValues(AddGuests(SeedCustomer(<<>>, customer), guest)),
               "newest")

(***************************************************************************)
(* findNewItems                                                            *)
(***************************************************************************)
findNewItemsInBefore(before, after) ==
    LET beforeKeys == { createItemKey(before[i]) : i \in 1..Len(before) }
        keep(item) == createItemKey(item) \in beforeKeys
    IN  SelectSeq(after, keep)

findNewItems(before, after) ==
    LET beforeKeys == { createItemKey(before[i]) : i \in 1..Len(before) }
        keep(item) == createItemKey(item) \notin beforeKeys
    IN  SelectSeq(after, keep)

(***************************************************************************)
(* deduplicateItems                                                        *)
(***************************************************************************)

\* One iteration of the loop: st is [seen, result].
DedupStepKeepLast(st, item) ==
    LET key == createItemKey(item)
        drop(x) == createItemKey(x) # key
    IN  [seen |-> st.seen \cup {key},
         result |-> Append(SelectSeq(st.result, drop), item)]

DedupStep(st, item) ==
    LET key == createItemKey(item) IN
    IF key \notin st.seen
    THEN [seen |-> st.seen \cup {key}, result |-> Append(st.result, item)]
    ELSE st

RECURSIVE DedupLoop(_, _)
DedupLoop(st, items) ==
    IF items = <<>> THEN st
    ELSE DedupLoop(DedupStep(st, Head(items)), Tail(items))

deduplicateItems(items) == DedupLoop([seen |-> {}, result |-> <<>>], items).result

(***************************************************************************)
(* The utilities applied to drawn inputs.                                  *)
(***************************************************************************)
\* No window: the utilities of merge.ts touch no storage.
NoStorage ==
    ls = [window |-> FALSE, mode |-> "ok", wishlistItems |-> [kind |-> "null"],
          lastSyncTimestamp |-> [kind |-> "null"]]

\* No WishlistProvider is mounted.
NoProvider ==
    /\ config = <<>>
    /\ itemsState = <<>>
    /\ isLoading = FALSE
    /\ isSyncing = FALSE
    /\ error = <<>>
    /\ calls = {}
    /\ log = <<>>

InitMerge ==
    /\ guestItems \in SeqsUpTo(GuestUniverse, MaxLen)
    /\ customerItems \in SeqsUpTo(CustomerUniverse, MaxLen)
    /\ op = "init"
    /\ result = <<>>
    /\ prev = <<>>
    /\ heap = <<>>
    /\ ret = 0
    /\ NoStorage
    /\ NoProvider

\* result = mergeWishlists(guestItems, customerItems)
Merge ==
    /\ op = "init"
    /\ result' = mergeWishlists(guestItems, customerItems)
    /\ op' = "mergeWishlists"
    /\ UNCHANGED <<guestItems, customerItems, prev, heap, ret>>
    /\ UNCHANGED <<ls, ctlVars>>

\* result = mergeWishlists(guestItems, <the merge just returned>)
Remerge ==
    /\ op = "mergeWishlists"
    /\ prev' = result
    /\ result' = mergeWishlists(guestItems, result)
    /\ op' = "remerge"
    /\ UNCHANGED <<guestItems, customerItems, heap, ret>>
    /\ UNCHANGED <<ls, ctlVars>>

\* result = findNewItems(guestItems, customerItems)
FindNew ==
    /\ op = "init"
    /\ result' = findNewItems(guestItems, customerItems)
    /\ op' = "findNewItems"
    /\ UNCHANGED <<guestItems, customerItems, prev, heap, ret>>
    /\ UNCHANGED <<ls, ctlVars>>

\* The list handed to deduplicateItems.
DedupInput == guestItems \o customerItems

\* result = deduplicateItems(DedupInput)
Dedup ==
    /\ op = "init"
    /\ result' = deduplicateItems(DedupInput)
    /\ op' = "deduplicateItems"
    /\ UNCHANGED <<guestItems, customerItems, prev, heap, ret>>
    /\ UNCHANGED <<ls, ctlVars>>

\* result = deduplicateItems(<the list deduplicateItems just returned>)
Rededup ==
    /\ op = "deduplicateItems"
    /\ prev' = result
    /\ result' = deduplicateItems(result)
    /\ op' = "rededup"
    /\ UNCHANGED <<guestItems, customerItems, heap, ret>>
    /\ UNCHANGED <<ls, ctlVars>>

NextMerge == Merge \/ Remerge \/ FindNew \/ Dedup \/ Rededup

SpecMerge == InitMerge /\ [][NextMerge]_vars

(***************************************************************************)
(* createItemKey applied to two drawn items.                               *)
(***************************************************************************)
InitKey ==
    /\ guestItems \in { <<a>> : a \in GuestUniverse }
    /\ customerItems \in { <<b>> : b \in GuestUniverse \cup CustomerUniverse }
    /\ op = "init"
    /\ result = <<>>
    /\ prev = <<>>
    /\ heap = <<>>
    /\ ret = 0
    /\ NoStorage
    /\ NoProvider

\* result = [createItemKey(a), createItemKey(b)]
CreateKeys ==
    /\ op = "init"
    /\ result' = <<createItemKey(guestItems[1]), createItemKey(customerItems[1])>>
    /\ op' = "createItemKey"
    /\ UNCHANGED <<guestItems, customerItems, prev, heap, ret>>
    /\ UNCHANGED <<ls, ctlVars>>

NextKey == CreateKeys

SpecKey == InitKey /\ [][NextKey]_vars

(***************************************************************************)
(* Sort views.  A view takes the reference of its argument array in the    *)
(* heap h and returns the heap after the call and the reference returned.  *)
(***************************************************************************)

\* [...items]: a fresh array with the same elements; its reference is
\* Len(h) + 1.
ArraySpread(h, items) == Append(h, h[items])

\* [...items].sort(cmp)
SortCopy(h, items, cmp) ==
    LET h1 == ArraySpread(h, items)
        copy == Len(h1)
    IN  [heap |-> [h1 EXCEPT ![copy] = StableSort(h1[copy], cmp)], ret |-> copy]

sortByNewestInPlace(h, items) ==
    [heap |-> [h EXCEPT ![items] = StableSort(h[items], "newest")],
     ret |-> items]

sortByNewest(h, items) == SortCopy(h, items, "newest")

sortByOldest(h, items) == SortCopy(h, items, "oldest")

sortByTitle(h, items) == SortCopy(h, items, "title")

sortByPriceLowToHigh(h, items) == SortCopy(h, items, "priceLowToHigh")

sortByPriceHighToLow(h, items) == SortCopy(h, items, "priceHighToLow")

\* The items of the list handed to a sort view.
SortTitles == { "Apple", "Zebra" }

SortPrices == { Missing, Price("0.00"), Price("10.00") }

SortDates == { "2024-01-01T00:00:00Z", "2024-02-01T00:00:00Z" }

SortUniverse ==
    { WishlistItem(<<"p1", Missing>>, t, Missing, Missing, Missing, p, d) :
        t \in SortTitles, p \in SortPrices, d \in SortDates }

\* The reference of the caller's array.
ItemsRef == 1

InitSort ==
    /\ heap \in { <<items>> : items \in SeqsUpTo(SortUniverse, MaxSortLen) }
    /\ ret = 0
    /\ op = "init"
    /\ guestItems = <<>>
    /\ customerItems = <<>>
    /\ result = <<>>
    /\ prev = <<>>
    /\ NoStorage
    /\ NoProvider

\* sorted = sortByNewest(items)
SortNewest ==
    /\ op = "init"
    /\ LET view == sortByNewest(heap, ItemsRef)
       IN  heap' = view.heap /\ ret' = view.ret
    /\ op' = "sortByNewest"
    /\ UNCHANGED <<guestItems, customerItems, result, prev>>
    /\ UNCHANGED <<ls, ctlVars>>

\* sorted = sortByOldest(items)
SortOldest ==
    /\ op = "init"
    /\ LET view == sortByOldest(heap, ItemsRef)
       IN  heap' = view.heap /\ ret' = view.ret
    /\ op' = "sortByOldest"
    /\ UNCHANGED <<guestItems, customerItems, result, prev>>
    /\ UNCHANGED <<ls, ctlVars>>

\* sorted = sortByTitle(items)
SortTitle ==
    /\ op = "init"
    /\ LET view == sortByTitle(heap, ItemsRef)
       IN  heap' = view.heap /\ ret' = view.ret
    /\ op' = "sortByTitle"
    /\ UNCHANGED <<guestItems, customerItems, result, prev>>
    /\ UNCHANGED <<ls, ctlVars>>

\* sorted = sortByPriceLowToHigh(items)
SortPriceLowToHigh ==
    /\ op = "init"
    /\ LET view == sortByPriceLowToHigh(heap, ItemsRef)
       IN  heap' = view.heap /\ ret' = view.ret
    /\ op' = "sortByPriceLowToHigh"
    /\ UNCHANGED <<guestItems, customerItems, result, prev>>
    /\ UNCHANGED <<ls, ctlVars>>

\* sorted = sortByPriceHighToLow(items)
SortPriceHighToLow ==
    /\ op = "init"
    /\ LET view == sortByPriceHighToLow(heap, ItemsRef)
       IN  heap' = view.heap /\ ret' = view.ret
    /\ op' = "sortByPriceHighToLow"
    /\ UNCHANGED <<guestItems, customerItems, result, prev>>
    /\ UNCHANGED <<ls, ctlVars>>

NextSort ==
    \/ SortNewest
    \/ SortOldest
    \/ SortTitle
    \/ SortPriceLowToHigh
    \/ SortPriceHighToLow

SpecSort == InitSort /\ [][NextSort]_vars

(***************************************************************************)
(* mergeWishlists, findNewItems and deduplicateItems on a heap: the        *)
(* statements they execute on arrays and objects.  A cell of the heap is   *)
(* an array of references (or of strings) or a WishlistItem object.  The   *)
(* caller owns the two argument arrays and the objects they refer to.      *)
(***************************************************************************)
ArrayCell(elems) == [kind |-> "array", elems |-> elems]

ObjectCell(item) == [kind |-> "object", value |-> item]

\* The items the array at r refers to, as values.
Deref(h, r) == [i \in 1..Len(h[r].elems) |-> h[h[r].elems[i]].value]

\* createItemKey(item) for the object at r
KeyAt(h, r) == createItemKey(h[r].value)

\* for (const item of customerItems) merged.set(createItemKey(item), item):
\* the Map holds references.
RECURSIVE SeedCustomerOnHeap(_, _, _)
SeedCustomerOnHeap(h, merged, refs) ==
    IF refs = <<>> THEN merged
    ELSE SeedCustomerOnHeap(h, MapSet(merged, KeyAt(h, Head(refs)), Head(refs)),
                            Tail(refs))

\* The guest loop writing the guest item's properties into the existing
\* object (Object.assign) instead of building a new one.
AddGuestOnHeapAssign(st, r) ==
    LET key == KeyAt(st.heap, r) IN
    IF ~MapHas(st.merged, key) THEN [st EXCEPT !.merged = MapSet(@, key, r)]
    ELSE LET existing == MapGet(st.merged, key) IN
         IF DateGetTime(st.heap[r].value.addedAt)
              < DateGetTime(st.heap[existing].value.addedAt)
         THEN [st EXCEPT !.heap[existing] =
                  ObjectCell(SpreadMerge(st.heap[existing].value, st.heap[r].value))]
         ELSE st

\* One iteration of the loop over guestItems; st is [heap, merged].  The
\* object literal { ...existing, ...item, addedAt } is a new object.
AddGuestOnHeap(st, r) ==
    LET key == KeyAt(st.heap, r) IN
    IF ~MapHas(st.merged, key) THEN [st EXCEPT !.merged = MapSet(@, key, r)]
    ELSE LET existing == MapGet(st.merged, key) IN
         IF DateGetTime(st.heap[r].value.addedAt)
              < DateGetTime(st.heap[existing].value.addedAt)
         THEN LET h1 == Append(st.heap,
                           ObjectCell(SpreadMerge(st.heap[existing].value,
                                                  st.heap[r].value)))
              IN  [heap |-> h1, merged |-> MapSet(st.merged, key, Len(h1))]
         ELSE st

RECURSIVE AddGuestsOnHeap(_, _)
AddGuestsOnHeap(st, refs) ==
    IF refs = <<>> THEN st
    ELSE AddGuestsOnHeap(AddGuestOnHeap(st, Head(refs)), Tail(refs))

\* array.sort((a, b) => getTime(b.addedAt) - getTime(a.addedAt)) on the
\* array at r, in place.
SortNewestOnHeap(h, r) ==
    LET dated == [i \in 1..Len(h[r].elems) |->
                     [ref |-> h[r].elems[i],
                      addedAt |-> h[h[r].elems[i]].value.addedAt]]
        sorted == StableSort(dated, "newest")
    IN  [h EXCEPT ![r] = ArrayCell([i \in 1..Len(sorted) |-> sorted[i].ref])]

\* mergeWishlists(guestItems, customerItems): the heap afterwards and the
\* reference returned.
mergeWishlistsOnHeap(h, guest, customer) ==
    LET seeded == SeedCustomerOnHeap(h, <<>>, h[customer].elems)
        st == AddGuestsOnHeap([heap |-> h, merged |-> seeded], h[guest].elems)
        h1 == Append(st.heap, ArrayCell(MapValues(st.merged)))
    IN  [heap |-> SortNewestOnHeap(h1, Len(h1)), ret |-> Len(h1)]

\* findNewItems(before, after): before.map(createItemKey) and after.filter
\* each make a new array.
findNewItemsOnHeap(h, before, after) ==
    LET keys == [i \in 1..Len(h[before].elems) |-> KeyAt(h, h[before].elems[i])]
        h1 == Append(h, ArrayCell(keys))
        beforeKeys == { keys[i] : i \in 1..Len(keys) }
        keep(r) == KeyAt(h1, r) \notin beforeKeys
        h2 == Append(h1, ArrayCell(SelectSeq(h1[after].elems, keep)))
    IN  [heap |-> h2, ret |-> Len(h2)]

\* One iteration of deduplicateItems' loop: result.push(item) writes the
\* array at st.result.
DedupStepOnHeap(st, r) ==
    LET key == KeyAt(st.heap, r) IN
    IF key \notin st.seen
    THEN [st EXCEPT !.seen = @ \cup {key},
                    !.heap[st.result] = ArrayCell(Append(@.elems, r))]
    ELSE st

RECURSIVE DedupLoopOnHeap(_, _)
DedupLoopOnHeap(st, refs) ==
    IF refs = <<>> THEN st
    ELSE DedupLoopOnHeap(DedupStepOnHeap(st, Head(refs)), Tail(refs))

\* deduplicateItems(items): `result` is a new array.
deduplicateItemsOnHeap(h, items) ==
    LET h1 == Append(h, ArrayCell(<<>>))
        st == DedupLoopOnHeap([heap |-> h1, seen |-> {}, result |-> Len(h1)],
                              h[items].elems)
    IN  [heap |-> st.heap, ret |-> st.result]

\* Most calls of the utilities on one heap.
MaxCalls == 2

\* The items the caller's two arrays are drawn from.
HeapGuestUniverse ==
    { GuestItem(<<"p1", Missing>>, "2024-01-10T00:00:00.000Z"),
      GuestItem(<<"p2", Missing>>, "2024-01-20T00:00:00.000Z") }

HeapCustomerUniverse ==
    { CustomerItem(<<"p1", Missing>>, "2024-01-15T00:00:00Z"),
      CustomerItem(<<"p2", Missing>>, "2024-01-10T00:00:00Z") }

\* The caller's heap: an object per element of guest and of customer,
\* then the two arrays.
CallerHeap(guest, customer) ==
    [i \in 1..Len(guest) |-> ObjectCell(guest[i])]
        \o [i \in 1..Len(customer) |-> ObjectCell(customer[i])]
        \o << ArrayCell([i \in 1..Len(guest) |-> i]),
              ArrayCell([i \in 1..Len(customer) |-> Len(guest) + i]) >>

\* The references of the caller's arrays.
GuestRef == Len(guestItems) + Len(customerItems) + 1

CustomerRef == Len(guestItems) + Len(customerItems) + 2

\* guestItems and customerItems keep the values of the arguments as the
\* caller built them; prev lists the references returned so far.
InitHeap ==
    /\ guestItems \in SeqsUpTo(HeapGuestUniverse, MaxLen)
    /\ customerItems \in SeqsUpTo(HeapCustomerUniverse, MaxLen)
    /\ heap = CallerHeap(guestItems, customerItems)
    /\ ret = 0
    /\ op = "init"
    /\ result = <<>>
    /\ prev = <<>>
    /\ NoStorage
    /\ NoProvider

\* Another call may be made.
CanCall == Len(prev) < MaxCalls

\* The utility `name` ran on the heap.
Called(name, run) ==
    /\ heap' = run.heap
    /\ ret' = run.ret
    /\ result' = Deref(run.heap, run.ret)
    /\ prev' = Append(prev, run.ret)
    /\ op' = name
    /\ UNCHANGED <<guestItems, customerItems, ls, ctlVars>>

\* mergeWishlists(guestItems, customerItems)
MergeOnHeap ==
    /\ CanCall
    /\ Called("mergeWishlists", mergeWishlistsOnHeap(heap, GuestRef, CustomerRef))

\* findNewItems(guestItems, customerItems)
FindNewOnHeap ==
    /\ CanCall
    /\ Called("findNewItems", findNewItemsOnHeap(heap, GuestRef, CustomerRef))

\* deduplicateItems(guestItems)
DedupOnHeap ==
    /\ CanCall
    /\ Called("deduplicateItems", deduplicateItemsOnHeap(heap, GuestRef))

NextHeap == MergeOnHeap \/ FindNewOnHeap \/ DedupOnHeap

SpecHeap == InitHeap /\ [][NextHeap]_vars

(***************************************************************************)
(* Completion of a call that may throw: try { ... } catch { ... } is       *)
(* Catch(outcome, fallback).                                               *)
(***************************************************************************)
Return(v) == [threw |-> FALSE, value |-> v]

Throw == [threw |-> TRUE]

Catch(outcome, fallback) == IF outcome.threw THEN Return(fallback) ELSE outcome

(***************************************************************************)
(* JSON values, and the texts localStorage holds.  A JSON object is a      *)
(* function from its property names to JSON values.                        *)
(***************************************************************************)
JsonNull == [json |-> "null"]

JsonString(s) == [json |-> "string", s |-> s]

JsonNumber(n) == [json |-> "number", n |-> n]

JsonArray(elems) == [json |-> "array", elems |-> elems]

JsonObject(props) == [json |-> "object", props |-> props]

\* typeof v
TypeOf(v) == IF v.json \in {"null", "array", "object"} THEN "object" ELSE v.json

\* !!v
Truthy(v) ==
    CASE v.json = "null"   -> FALSE
      [] v.json = "string" -> v.s # ""
      [] v.json = "number" -> v.n # 0
      [] OTHER             -> TRUE

\* obj[name]: Missing when obj has no such property (undefined)
Prop(obj, name) ==
    IF obj.json = "object" /\ name \in DOMAIN obj.props
    THEN Some(obj.props[name])
    ELSE Missing

\* The property `name` of a JSON object, when the optional value is present.
OptionalProp(name, opt) == IF opt = Missing THEN <<>> ELSE name :> opt[1]

\* JSON.stringify of a WishlistItem's image or price: properties that are
\* undefined are left out.
StringProps(rec) == JsonObject([name \in DOMAIN rec |-> JsonString(rec[name])])

\* JSON.stringify(item) followed by JSON.parse, for one WishlistItem.
ItemToJson(item) ==
    JsonObject(
        [productId |-> JsonString(item.productId),
         productTitle |-> JsonString(item.productTitle),
         addedAt |-> JsonString(item.addedAt)]
        @@ OptionalProp("variantId",
               IF item.variantId = Missing THEN Missing
               ELSE Some(JsonString(item.variantId[1])))
        @@ OptionalProp("productHandle",
               IF item.productHandle = Missing THEN Missing
               ELSE Some(JsonString(item.productHandle[1])))
        @@ OptionalProp("variantTitle",
               IF item.variantTitle = Missing THEN Missing
               ELSE Some(JsonString(item.variantTitle[1])))
        @@ OptionalProp("image",
               IF item.image = Missing THEN Missing
               ELSE Some(StringProps(item.image[1])))
        @@ OptionalProp("price",
               IF item.price = Missing THEN Missing
               ELSE Some(StringProps(item.price[1]))))

\* The strings of an image or price object read back from JSON.
PropStrings(obj) == [name \in DOMAIN obj.props |-> obj.props[name].s]

\* An optional string property read back from JSON.
OptionalString(obj, name) ==
    IF Prop(obj, name) = Missing THEN Missing ELSE Some(Prop(obj, name)[1].s)

\* An optional image or price property read back from JSON.
OptionalStrings(obj, name) ==
    IF Prop(obj, name) = Missing THEN Missing
    ELSE Some(PropStrings(Prop(obj, name)[1]))

\* `as WishlistItem`: the parsed object seen through the WishlistItem type.
AsWishlistItem(obj) ==
    WishlistItem(<<obj.props.productId.s, OptionalString(obj, "variantId")>>,
                 obj.props.productTitle.s,
                 OptionalString(obj, "productHandle"),
                 OptionalString(obj, "variantTitle"),
                 OptionalStrings(obj, "image"),
                 OptionalStrings(obj, "price"),
                 obj.props.addedAt.s)

\* localStorage.getItem returns null
NoValue == [kind |-> "null"]

\* the text ""
EmptyText == [kind |-> "empty"]

\* a text JSON.parse rejects
GarbageText == [kind |-> "garbage"]

\* the text of the JSON value v
JsonText(v) == [kind |-> "json", value |-> v]

\* JSON.parse(text)
JSONParse(text) == IF text.kind = "json" THEN Return(text.value) ELSE Throw

\* JSON.stringify(items), items a WishlistItem[]
JSONStringify(array) == JsonText(JsonArray([i \in 1..Len(array) |-> ItemToJson(array[i])]))

\* Array.isArray(v)
ArrayIsArray(v) == v.json = "array"

(***************************************************************************)
(* isValidWishlistItem                                                     *)
(***************************************************************************)
\* !obj[name] || typeof obj[name] !== 'string'
NotAString(obj, name) ==
    LET v == Prop(obj, name)
    IN  \/ v = Missing
        \/ ~Truthy(v[1])
        \/ TypeOf(v[1]) # "string"

isValidWishlistItem(item) ==
    IF ~Truthy(item) \/ TypeOf(item) # "object" THEN FALSE
    ELSE IF NotAString(item, "productId") THEN FALSE
    ELSE IF NotAString(item, "productTitle") THEN FALSE
    ELSE IF NotAString(item, "addedAt") THEN FALSE
    ELSE TRUE

(***************************************************************************)
(* window.localStorage.  mode "ok": every call works; "denied": every call *)
(* throws; "full": every setItem throws; "quota": setItem of the wishlist  *)
(* throws, setItem of the short test key works.                            *)
(***************************************************************************)
LocalStorage(window, mode, wishlistItems, lastSyncTimestamp) ==
    [window |-> window, mode |-> mode, wishlistItems |-> wishlistItems,
     lastSyncTimestamp |-> lastSyncTimestamp]

\* window.localStorage.getItem(key)
GetItem(s, key) == IF s.mode = "denied" THEN Throw ELSE Return(s[key])

\* window.localStorage.setItem(key, text): the storage afterwards
SetItem(s, key, text) ==
    IF s.mode \in {"denied", "full", "quota"} THEN Throw
    ELSE Return([s EXCEPT ![key] = text])

\* window.localStorage.setItem(testKey, testKey)
SetTestItem(s) == IF s.mode \in {"denied", "full"} THEN Throw ELSE Return(s)

\* window.localStorage.removeItem(key): the storage afterwards
RemoveItem(s, key) ==
    IF s.mode = "denied" THEN Throw ELSE Return([s EXCEPT ![key] = NoValue])

isStorageAvailable(s) ==
    IF ~s.window THEN FALSE
    ELSE Catch(IF SetTestItem(s).threw THEN Throw ELSE Return(TRUE), FALSE).value

\* parsed.filter(isValidWishlistItem) as WishlistItem[]
FilterValid(elems) ==
    LET kept == SelectSeq(elems, isValidWishlistItem)
    IN  [i \in 1..Len(kept) |-> AsWishlistItem(kept[i])]

\* The try block of getStoredItems.
ReadStoredItems(s) ==
    LET stored == GetItem(s, "wishlistItems")
    IN  IF stored.threw THEN Throw
        ELSE IF stored.value.kind \in {"null", "empty"} THEN Return(<<>>)
        ELSE LET parsed == JSONParse(stored.value)
             IN  IF parsed.threw THEN Throw
                 ELSE IF ~ArrayIsArray(parsed.value) THEN Return(<<>>)
                 ELSE Return(FilterValid(parsed.value.elems))

getStoredItemsNoCatch(s) ==
    IF ~isStorageAvailable(s) THEN Return(<<>>) ELSE ReadStoredItems(s)

getStoredItems(s) ==
    IF ~isStorageAvailable(s) THEN Return(<<>>)
    ELSE Catch(ReadStoredItems(s), <<>>)

\* setStoredItems(items): the storage afterwards
setStoredItems(s, array) ==
    IF ~isStorageAvailable(s) THEN Return(s)
    ELSE Catch(SetItem(s, "wishlistItems", JSONStringify(array)), s)

\* clearStoredItems(): the storage afterwards
clearStoredItems(s) ==
    IF ~isStorageAvailable(s) THEN Return(s)
    ELSE LET first == RemoveItem(s, "wishlistItems")
         IN  Catch(IF first.threw THEN Throw
                   ELSE RemoveItem(first.value, "lastSyncTimestamp"), s)

\* existing.productId === productId && existing.variantId === variantId
SameIds(existing, productId, variantId) ==
    existing.productId = productId /\ existing.variantId = variantId

\* addStoredItem(item): the storage afterwards
addStoredItem(s, item) ==
    LET stored == getStoredItems(s)
    IN  IF stored.threw THEN Throw
        ELSE IF \E i \in 1..Len(stored.value) :
                    SameIds(stored.value[i], item.productId, item.variantId)
        THEN Return(s)
        ELSE setStoredItems(s, Append(stored.value, item))

\* removeStoredItem(productId, variantId): the storage afterwards
removeStoredItem(s, productId, variantId) ==
    LET stored == getStoredItems(s)
        NotIt(existing) == ~SameIds(existing, productId, variantId)
    IN  IF stored.threw THEN Throw
        ELSE setStoredItems(s, SelectSeq(stored.value, NotIt))

(***************************************************************************)
(* getStoredItems applied to drawn storage contents.                       *)
(***************************************************************************)
\* Most records in the stored array.
MaxStored == 4

ValidRecords ==
    { ItemToJson(GuestItem(<<"p1", Missing>>, "2024-01-10T00:00:00.000Z")),
      ItemToJson(GuestItem(<<"p1", Some("v1")>>, "2024-01-20T00:00:00.000Z")),
      ItemToJson(GuestItem(<<"p2", Missing>>, "2024-01-10T00:00:00.000Z")) }

\* The record with property `name` replaced.
WithProp(obj, name, v) == JsonObject((name :> v) @@ obj.props)

\* The record without property `name`.
WithoutProp(obj, name) ==
    JsonObject([n \in DOMAIN obj.props \ {name} |-> obj.props[n]])

SomeRecord == ItemToJson(GuestItem(<<"p2", Some("v1")>>, "2024-01-20T00:00:00.000Z"))

\* Array elements that are no wishlist records, or have a required property
\* missing, empty or of another type.
CorruptRecords ==
    { JsonNull,
      WithProp(SomeRecord, "productId", JsonNumber(123)),
      WithProp(SomeRecord, "productTitle", JsonString("")),
      WithoutProp(SomeRecord, "addedAt") }

\* A record whose addedAt is a string that is no date.
UndatedRecord == WithProp(SomeRecord, "addedAt", JsonString("not-a-date"))

StoredRecords == ValidRecords \cup CorruptRecords \cup {UndatedRecord}

StoredTexts ==
    {NoValue, EmptyText, GarbageText, JsonText(JsonNull), JsonText(SomeRecord)}
    \cup { JsonText(JsonArray(elems)) : elems \in SeqsUpTo(StoredRecords, MaxStored) }

\* The environments: <<window defined, localStorage mode>>.
StorageModes ==
    { <<FALSE, "ok">>, <<TRUE, "ok">>, <<TRUE, "denied">>, <<TRUE, "full">>,
      <<TRUE, "quota">> }

InitStorage ==
    /\ ls \in { LocalStorage(m[1], m[2], text, NoValue) :
                    m \in StorageModes, text \in StoredTexts }
    /\ op = "init"
    /\ result = <<>>
    /\ guestItems = <<>>
    /\ customerItems = <<>>
    /\ prev = <<>>
    /\ heap = <<>>
    /\ ret = 0
    /\ NoProvider

\* result = the completion of getStoredItems()
GetStoredItems ==
    /\ op = "init"
    /\ result' = getStoredItems(ls)
    /\ op' = "getStoredItems"
    /\ UNCHANGED <<guestItems, customerItems, prev, heap, ret, ls, ctlVars>>

NextStorage == GetStoredItems

SpecStorage == InitStorage /\ [][NextStorage]_vars

(***************************************************************************)
(* WishlistProvider.  The handlers are operators on the record st of the   *)
(* provider's state and localStorage; a handler that awaits a remote       *)
(* response is cut at the await: its first half issues the request, its    *)
(* second half runs when the response arrives.                             *)
(***************************************************************************)

\* DEFAULT_ERROR_MESSAGES
DEFAULT_ERROR_MESSAGES ==
    [notConfigured |-> "WishlistProvider is not configured.",
     network |-> "Network error. Please try again.",
     rateLimited |-> "Too many requests. Please try again later.",
     syncFailed |-> "Failed to sync wishlist. Please try again.",
     unknown |-> "An unexpected error occurred."]

\* opt ?? d
Default(opt, d) == IF opt = Missing THEN d ELSE opt[1]

\* WishBridgeConfig, the properties the provider reads.
WishBridgeConfig(customerId, apiKey, enableGuestWishlist, enableAutoMerge) ==
    [customerId |-> customerId, apiKey |-> apiKey,
     enableGuestWishlist |-> enableGuestWishlist,
     enableAutoMerge |-> enableAutoMerge]

\* const isGuest = !config.customerId
isGuest(cfg) == cfg.customerId = Missing

\* const enableGuestWishlist = config.enableGuestWishlist ?? true
enableGuestWishlist(cfg) == Default(cfg.enableGuestWishlist, TRUE)

\* const enableAutoMerge = config.enableAutoMerge ?? true
enableAutoMerge(cfg) == Default(cfg.enableAutoMerge, TRUE)

\* The provider's state and localStorage, as one record.
State(array, loading, syncing, err, storage) ==
    [items |-> array, isLoading |-> loading, isSyncing |-> syncing,
     error |-> err, ls |-> storage]

\* interface ProductInfo; id is the pair <<id, variantId>>
ProductInfo(id, title, handle, variantTitle, image, price) ==
    [id |-> id[1], variantId |-> id[2], title |-> title, handle |-> handle,
     variantTitle |-> variantTitle, image |-> image, price |-> price]

\* new Date().toISOString() at the time of an add
Now == "2024-01-20T00:00:00.000Z"

\* The item add() builds from a product.
NewItem(product) ==
    WishlistItem(<<product.id, product.variantId>>, product.title,
                 product.handle, product.variantTitle, product.image,
                 product.price, Now)

\* prev.some(existing => same productId and variantId)
HasIds(array, productId, variantId) ==
    \E i \in 1..Len(array) : SameIds(array[i], productId, variantId)

\* prev.filter(existing => !(same productId and variantId))
WithoutIds(array, productId, variantId) ==
    LET NotIt(existing) == ~SameIds(existing, productId, variantId)
    IN  SelectSeq(array, NotIt)

AddOptimisticAlways(array, item) == <<item>> \o array

\* setItems(prev => exists ? prev : [item, ...prev])
AddOptimistic(array, item) ==
    IF HasIds(array, item.productId, item.variantId) THEN array
    ELSE <<item>> \o array

(***************************************************************************)
(* Remote responses.  fetch either rejects or resolves to a response with  *)
(* a status and a body; json is Missing when res.json() rejects, else the  *)
(* parsed body.                                                            *)
(***************************************************************************)
FetchRejected == [fetch |-> "rejected"]

Response(status, json) == [fetch |-> "resolved", status |-> status, json |-> json]

\* SyncWishlistResponse / UpdateWishlistResponse
WishlistResponse(success, array, err) ==
    [success |-> success, items |-> array, error |-> err]

\* res.ok
ResOk(res) == res.status \in 200..299

\* await res.json()
ResJson(res) == IF res.json = Missing THEN Throw ELSE Return(res.json[1])

(***************************************************************************)
(* syncWishlist                                                            *)
(***************************************************************************)
\* syncWishlist up to `await fetch`: the state, and whether a request is
\* issued.
syncWishlistStartUnguarded(st, cfg) ==
    [st |-> [st EXCEPT !.isSyncing = TRUE, !.error = Missing], fetch |-> TRUE]

syncWishlistStart(st, cfg) ==
    IF cfg.customerId = Missing \/ cfg.apiKey = Missing
    THEN [st |-> st, fetch |-> FALSE]
    ELSE [st |-> [st EXCEPT !.isSyncing = TRUE, !.error = Missing], fetch |-> TRUE]

syncWishlistTryNo429(st, res) ==
    IF res.fetch = "rejected" THEN Throw
    ELSE LET parsed == ResJson(res)
         IN  IF parsed.threw THEN Throw
             ELSE IF ~ResOk(res) \/ ~parsed.value.success
             THEN Return([st EXCEPT !.error =
                     Some(Default(parsed.value.error,
                                  DEFAULT_ERROR_MESSAGES.syncFailed))])
             ELSE Return(st)

\* The try block of syncWishlist from the response on.
syncWishlistTry(st, res) ==
    IF res.fetch = "rejected" THEN Throw
    ELSE IF res.status = 429
    THEN Return([st EXCEPT !.error = Some(DEFAULT_ERROR_MESSAGES.rateLimited)])
    ELSE LET parsed == ResJson(res)
         IN  IF parsed.threw THEN Throw
             ELSE IF ~ResOk(res) \/ ~parsed.value.success
             THEN Return([st EXCEPT !.error =
                     Some(Default(parsed.value.error,
                                  DEFAULT_ERROR_MESSAGES.syncFailed))])
             ELSE IF parsed.value.items # Missing
             THEN LET cleared == clearStoredItems(st.ls)
                  IN  IF cleared.threw THEN Throw
                      ELSE Return([st EXCEPT !.items = parsed.value.items[1],
                                             !.ls = cleared.value])
             ELSE Return(st)

\* finally { setIsSyncing(false) }
SyncFinally(outcome, st) ==
    IF outcome.threw THEN [threw |-> TRUE, value |-> [st EXCEPT !.isSyncing = FALSE]]
    ELSE Return([outcome.value EXCEPT !.isSyncing = FALSE])

\* syncWishlist from the response on: try, catch, finally.
syncWishlistSettle(st, res) ==
    SyncFinally(
        Catch(syncWishlistTry(st, res),
              [st EXCEPT !.error = Some(DEFAULT_ERROR_MESSAGES.network)]),
        st)

(***************************************************************************)
(* loadItems                                                               *)
(***************************************************************************)
LoadDone(st) ==
    [st |-> [st EXCEPT !.isLoading = FALSE], fetch |-> FALSE, guestItems |-> <<>>]

\* await syncWishlist(storedItems): when syncWishlist returns at its guard,
\* loadItems goes on to its finally block at once.
LoadAwaiting(st, cfg, storedItems) ==
    LET started == syncWishlistStart(st, cfg)
    IN  IF started.fetch
        THEN [st |-> started.st, fetch |-> TRUE, guestItems |-> storedItems]
        ELSE LoadDone(started.st)

\* loadItems up to `await syncWishlist(storedItems)`, or to its end when it
\* does not get there: the state, whether a request is issued (and awaited),
\* and the items handed to syncWishlist.
loadItemsStart(st0, cfg) ==
    LET st == [st0 EXCEPT !.isLoading = TRUE, !.error = Missing]
        stored == getStoredItems(st.ls)
        failed == [st EXCEPT !.error = Some(DEFAULT_ERROR_MESSAGES.unknown)]
    IN  IF isGuest(cfg) /\ enableGuestWishlist(cfg)
        THEN IF stored.threw THEN LoadDone(failed)
             ELSE LoadDone([st EXCEPT !.items = stored.value])
        ELSE IF ~isGuest(cfg)
        THEN IF stored.threw THEN LoadDone(failed)
             ELSE IF Len(stored.value) > 0 /\ enableAutoMerge(cfg)
             THEN LoadAwaiting(st, cfg, stored.value)
             ELSE LoadDone([st EXCEPT !.items = stored.value])
        ELSE LoadDone(st)

\* loadItems after `await syncWishlist(storedItems)`: catch and finally.
loadItemsSettle(awaited) ==
    IF awaited.threw
    THEN Return([awaited.value EXCEPT
                    !.error = Some(DEFAULT_ERROR_MESSAGES.unknown),
                    !.isLoading = FALSE])
    ELSE Return([awaited.value EXCEPT !.isLoading = FALSE])

\* add that undoes its optimistic update, and sets error, when the item did
\* not reach localStorage.
addStartStrict(st0, cfg, product) ==
    LET item == NewItem(product)
        st == [st0 EXCEPT !.items = AddOptimistic(@, item)]
    IN  IF isGuest(cfg) /\ enableGuestWishlist(cfg)
        THEN LET saved == addStoredItem(st.ls, item)
             IN  IF saved.threw
                 THEN [threw |-> TRUE, value |-> st, fetch |-> FALSE]
                 ELSE IF HasIds(getStoredItems(saved.value).value,
                                item.productId, item.variantId)
                 THEN [threw |-> FALSE, value |-> [st EXCEPT !.ls = saved.value],
                       fetch |-> FALSE]
                 ELSE [threw |-> FALSE,
                       value |-> [st0 EXCEPT !.error =
                                     Some(DEFAULT_ERROR_MESSAGES.unknown)],
                       fetch |-> FALSE]
        ELSE IF ~isGuest(cfg) /\ cfg.apiKey # Missing
        THEN [threw |-> FALSE, value |-> st, fetch |-> TRUE]
        ELSE [threw |-> FALSE, value |-> st, fetch |-> FALSE]

(***************************************************************************)
(* add, remove, clear, sync                                                *)
(***************************************************************************)
\* add(product) up to `await fetch`, or to its end: the completion with the
\* state, and whether a request is issued.
addStart(st0, cfg, product) ==
    LET item == NewItem(product)
        st == [st0 EXCEPT !.items = AddOptimistic(@, item)]
    IN  IF isGuest(cfg) /\ enableGuestWishlist(cfg)
        THEN LET saved == addStoredItem(st.ls, item)
             IN  IF saved.threw
                 THEN [threw |-> TRUE, value |-> st, fetch |-> FALSE]
                 ELSE [threw |-> FALSE, value |-> [st EXCEPT !.ls = saved.value],
                       fetch |-> FALSE]
        ELSE IF ~isGuest(cfg) /\ cfg.apiKey # Missing
        THEN [threw |-> FALSE, value |-> st, fetch |-> TRUE]
        ELSE [threw |-> FALSE, value |-> st, fetch |-> FALSE]

\* The try block of add keeping the optimistic item on a failure answer.
addTryNoRollback(st, item, res) ==
    IF res.fetch = "rejected" THEN Throw
    ELSE LET parsed == ResJson(res)
         IN  IF parsed.threw THEN Throw
             ELSE IF ~ResOk(res) \/ ~parsed.value.success
             THEN Return([st EXCEPT
                     !.error = Some(Default(parsed.value.error,
                                            DEFAULT_ERROR_MESSAGES.unknown))])
             ELSE Return(st)

\* The try block of add from the response on.
addTry(st, item, res) ==
    IF res.fetch = "rejected" THEN Throw
    ELSE LET parsed == ResJson(res)
         IN  IF parsed.threw THEN Throw
             ELSE IF ~ResOk(res) \/ ~parsed.value.success
             THEN Return([st EXCEPT
                     !.items = WithoutIds(@, item.productId, item.variantId),
                     !.error = Some(Default(parsed.value.error,
                                            DEFAULT_ERROR_MESSAGES.unknown))])
             ELSE Return(st)

addSettleNoCatch(st, item, res) ==
    LET tried == addTry(st, item, res)
    IN  IF tried.threw THEN [threw |-> TRUE, value |-> st] ELSE tried

\* add from the response on: try and catch.
addSettle(st, item, res) ==
    Catch(addTry(st, item, res),
          [st EXCEPT !.items = WithoutIds(@, item.productId, item.variantId),
                     !.error = Some(DEFAULT_ERROR_MESSAGES.network)])

\* remove without its optimistic update.
removeStartNoFilter(st0, cfg, productId, variantId) ==
    IF isGuest(cfg) /\ enableGuestWishlist(cfg)
    THEN LET saved == removeStoredItem(st0.ls, productId, variantId)
         IN  IF saved.threw
             THEN [threw |-> TRUE, value |-> st0, fetch |-> FALSE]
             ELSE [threw |-> FALSE, value |-> [st0 EXCEPT !.ls = saved.value],
                   fetch |-> FALSE]
    ELSE IF ~isGuest(cfg) /\ cfg.apiKey # Missing
    THEN [threw |-> FALSE, value |-> st0, fetch |-> TRUE]
    ELSE [threw |-> FALSE, value |-> st0, fetch |-> FALSE]

\* remove(productId, variantId) up to `await fetch`, or to its end.
removeStart(st0, cfg, productId, variantId) ==
    LET st == [st0 EXCEPT !.items = WithoutIds(@, productId, variantId)]
    IN  IF isGuest(cfg) /\ enableGuestWishlist(cfg)
        THEN LET saved == removeStoredItem(st.ls, productId, variantId)
             IN  IF saved.threw
                 THEN [threw |-> TRUE, value |-> st, fetch |-> FALSE]
                 ELSE [threw |-> FALSE, value |-> [st EXCEPT !.ls = saved.value],
                       fetch |-> FALSE]
        ELSE IF ~isGuest(cfg) /\ cfg.apiKey # Missing
        THEN [threw |-> FALSE, value |-> st, fetch |-> TRUE]
        ELSE [threw |-> FALSE, value |-> st, fetch |-> FALSE]

\* The try block of remove from the response on.
removeTry(st, res) ==
    IF res.fetch = "rejected" THEN Throw
    ELSE LET parsed == ResJson(res)
         IN  IF parsed.threw THEN Throw
             ELSE IF ~ResOk(res) \/ ~parsed.value.success
             THEN Return([st EXCEPT
                     !.error = Some(Default(parsed.value.error,
                                            DEFAULT_ERROR_MESSAGES.unknown))])
             ELSE Return(st)

removeSettleSilent(st, res) == Catch(removeTry(st, res), st)

\* remove from the response on: try and catch.
removeSettle(st, res) ==
    Catch(removeTry(st, res),
          [st EXCEPT !.error = Some(DEFAULT_ERROR_MESSAGES.network)])

\* clear() that leaves localStorage alone in every mode.
clearMemoryOnly(st0, cfg) == Return([st0 EXCEPT !.items = <<>>])

\* clear() clearing localStorage in every mode.
clearAnyMode(st0, cfg) ==
    LET st == [st0 EXCEPT !.items = <<>>]
        cleared == clearStoredItems(st.ls)
    IN  IF cleared.threw THEN [threw |-> TRUE, value |-> st]
        ELSE Return([st EXCEPT !.ls = cleared.value])

\* clear()
clear(st0, cfg) ==
    LET st == [st0 EXCEPT !.items = <<>>]
    IN  IF isGuest(cfg) /\ enableGuestWishlist(cfg)
        THEN LET cleared == clearStoredItems(st.ls)
             IN  IF cleared.threw THEN [threw |-> TRUE, value |-> st]
                 ELSE Return([st EXCEPT !.ls = cleared.value])
        ELSE Return(st)

\* sync() that returns without a request when nothing is stored.
syncStartSkipEmpty(st, cfg) ==
    LET stored == getStoredItems(st.ls)
        started == syncWishlistStart(st, cfg)
    IN  IF stored.threw
        THEN [threw |-> TRUE, value |-> st, fetch |-> FALSE, guestItems |-> <<>>]
        ELSE IF stored.value = <<>>
        THEN [threw |-> FALSE, value |-> st, fetch |-> FALSE, guestItems |-> <<>>]
        ELSE [threw |-> FALSE, value |-> started.st, fetch |-> started.fetch,
              guestItems |-> stored.value]

\* sync() up to `await syncWishlist(storedItems)`, or to its end: the
\* completion with the state, whether a request is issued, and the items
\* handed to syncWishlist.
syncStart(st, cfg) ==
    LET stored == getStoredItems(st.ls)
        started == syncWishlistStart(st, cfg)
    IN  IF stored.threw
        THEN [threw |-> TRUE, value |-> st, fetch |-> FALSE, guestItems |-> <<>>]
        ELSE [threw |-> FALSE, value |-> started.st, fetch |-> started.fetch,
              guestItems |-> stored.value]

(***************************************************************************)
(* The provider as a state machine.  A call record stands for an           *)
(* invocation of a handler; it is in `calls` while the handler awaits its  *)
(* remote response.  before and alone are history: the in-memory           *)
(* collection when the handler was invoked, and whether no other handler   *)
(* was awaiting or invoked between the invocation and the response.        *)
(***************************************************************************)

\* Most operations invoked on a mounted provider.
MaxOps == 2

\* The provider's state and localStorage now.
Ctl == State(itemsState, isLoading, isSyncing, error, ls)

\* The provider's state and localStorage become st.
Becomes(st) ==
    /\ itemsState' = st.items
    /\ isLoading' = st.isLoading
    /\ isSyncing' = st.isSyncing
    /\ error' = st.error
    /\ ls' = st.ls

Call(id, kind, caller, arg) ==
    [id |-> id, kind |-> kind, caller |-> caller, arg |-> arg,
     before |-> itemsState, alone |-> calls = {}, overdue |-> FALSE]

\* Another handler is invoked while the calls of cs await.
Overlapped(cs) == { [c EXCEPT !.alone = FALSE] : c \in cs }

(***************************************************************************)
(* The hooks.  useWishlist wraps context.add and context.remove, and       *)
(* useWishlistSync wraps context.sync, in try { await ...; onX() } catch   *)
(* { onError() }: the callback the wrapper runs when the promise of the    *)
(* wrapped handler settles.                                                *)
(***************************************************************************)
\* useWishlist().add: try { await context.add(product); onAdd?.(item) }
\* catch { onError?.(errorMsg) }
useWishlistAdd(threw) == IF threw THEN "onError" ELSE "onAdd"

\* useWishlist().remove
useWishlistRemove(threw) == IF threw THEN "onError" ELSE "onRemove"

\* useWishlistSync: triggerSync, and the automatic sync of its effect
triggerSync(threw) == IF threw THEN "onSyncError" ELSE "onSyncSuccess"

\* The callback a hook runs when the handler of `call` has run to its end.
HookCallback(call, threw) ==
    CASE call.caller = "add"    -> useWishlistAdd(threw)
      [] call.caller = "remove" -> useWishlistRemove(threw)
      [] call.caller = "sync"   -> triggerSync(threw)
      [] OTHER                  -> "none"

\* The <<productId, variantId>> pairs the backend has acknowledged to hold
\* after the response res to `call`: a success response to an add adds the
\* pair, to a remove takes it away, and a success response of a merge-sync
\* that carries items names the pairs held.
Acknowledged(acked, step, call, res) ==
    IF step # "settle" THEN acked
    ELSE IF res[1].fetch = "rejected" THEN acked
    ELSE IF ~ResOk(res[1]) \/ res[1].json = Missing THEN acked
    ELSE IF ~res[1].json[1].success THEN acked
    ELSE CASE call.kind = "add" ->
                  acked \cup {<<call.arg[1].productId, call.arg[1].variantId>>}
           [] call.kind = "remove" ->
                  acked \ {<<call.arg[1].productId, call.arg[1].variantId>>}
           [] OTHER ->
                  LET array == res[1].json[1].items
                  IN  IF array = Missing THEN acked
                      ELSE {<<array[1][i].productId, array[1][i].variantId>> :
                                i \in 1..Len(array[1])}

\* The history after a step: the step and its call, the response it
\* handled, the hook callback it ran, the endpoints requested so far,
\* whether a handler's promise has rejected.
Logged(step, call, res, fetch, threw) ==
    [mounted |-> TRUE,
     started |-> IF step \in {"loadItems", "settle"} THEN log.started
                 ELSE log.started + 1,
     requests |-> IF fetch
                  THEN log.requests \cup
                       {IF call.kind = "sync" THEN "/api/v1/sync" ELSE "/api/v1/update"}
                  ELSE log.requests,
     rejected |-> log.rejected \/ threw,
     acked |-> Acknowledged(log.acked, step, call, res),
     last |-> [step |-> step, call |-> call, res |-> res, threw |-> threw,
               callback |-> IF fetch THEN "none" ELSE HookCallback(call, threw)]]

\* The products handed to add and toggle; their ids are handed to remove.
Products ==
    { ProductInfo(id, "Guest title", Missing, Missing, Missing, Price("10.00")) :
          id \in { <<"p1", Missing>>, <<"p2", Missing>> } }

\* What localStorage holds when the provider mounts: nothing, an
\* unparseable text, or the items of an earlier guest session.
MountTexts ==
    { NoValue, GarbageText,
      JSONStringify(<<GuestItem(<<"p1", Missing>>, "2024-01-10T00:00:00.000Z"),
                      GuestItem(<<"p2", Missing>>, "2024-01-10T00:00:00.000Z")>>) }

MountModes == { <<TRUE, "ok">>, <<FALSE, "ok">>, <<TRUE, "quota">> }

\* The configurations: a guest with or without key and with the guest
\* wishlist on (by default) or off, a customer with or without key and with
\* auto-merge on (by default) or off.
Configs ==
    { WishBridgeConfig(Missing, apiKey, guest, Missing) :
          apiKey \in {Missing, Some("key")}, guest \in {Missing, Some(FALSE)} }
    \cup
    { WishBridgeConfig(Some("gid://shopify/Customer/1"), apiKey, Missing, merge) :
          apiKey \in {Missing, Some("key")}, merge \in {Missing, Some(FALSE)} }

\* The collections the backend returns.
ServerLists ==
    { <<>>,
      <<CustomerItem(<<"p2", Missing>>, "2024-01-15T00:00:00Z"),
        CustomerItem(<<"p1", Missing>>, "2024-01-10T00:00:00Z")>> }

\* What the backend, or the network, answers to an update request.
UpdateResponses ==
    { FetchRejected,
      Response(500, Some(WishlistResponse(FALSE, Missing, Some("Server error")))),
      Response(200, Missing),
      Response(200, Some(WishlistResponse(FALSE, Missing, Missing))),
      Response(200, Some(WishlistResponse(TRUE, Missing, Missing))) }

\* What the backend, or the network, answers to a sync request.
SyncResponses ==
    UpdateResponses \cup
    { Response(429, Missing) } \cup
    { Response(200, Some(WishlistResponse(TRUE, Some(list), Missing))) :
          list \in ServerLists }

\* The state after construction: useState initial values, effect not run.
Init ==
    /\ config \in Configs
    /\ ls \in { LocalStorage(m[1], m[2], text, NoValue) :
                    m \in MountModes, text \in MountTexts }
    /\ itemsState = <<>>
    /\ isLoading = TRUE
    /\ isSyncing = FALSE
    /\ error = Missing
    /\ calls = {}
    /\ log = [mounted |-> FALSE, started |-> 0, requests |-> {}, rejected |-> FALSE,
              acked |-> {},
              last |-> [step |-> "mount", call |-> Call(0, "none", "none", <<>>),
                        res |-> Missing, threw |-> FALSE, callback |-> "none"]]
    /\ guestItems = <<>>
    /\ customerItems = <<>>
    /\ op = "init"
    /\ result = <<>>
    /\ prev = <<>>
    /\ heap = <<>>
    /\ ret = 0

\* useEffect: loadItems()
LoadItems ==
    /\ ~log.mounted
    /\ LET run == loadItemsStart(Ctl, config)
           call == Call(0, "sync", "loadItems", run.guestItems)
       IN  /\ Becomes(run.st)
           /\ calls' = IF run.fetch THEN {call} ELSE {}
           /\ log' = Logged("loadItems", call, Missing, run.fetch, FALSE)
    /\ UNCHANGED <<utilVars, config>>

\* An operation may be invoked.
Invocable == log.mounted /\ log.started < MaxOps

\* A handler invoked as `call` ran to its await or to its end.
Invoked(step, call, run) ==
    /\ Becomes(run.value)
    /\ calls' = Overlapped(calls) \cup (IF run.fetch THEN {call} ELSE {})
    /\ log' = Logged(step, call, Missing, run.fetch, run.threw)
    /\ UNCHANGED <<utilVars, config>>

\* add(product)
Add ==
    /\ Invocable
    /\ \E product \in Products :
          Invoked("add", Call(log.started + 1, "add", "add", <<NewItem(product)>>),
                  addStart(Ctl, config, product))

\* remove(productId, variantId)
Remove ==
    /\ Invocable
    /\ \E product \in Products :
          Invoked("remove",
                  Call(log.started + 1, "remove", "remove", <<NewItem(product)>>),
                  removeStart(Ctl, config, product.id, product.variantId))

\* toggle(product)
Toggle ==
    /\ Invocable
    /\ \E product \in Products :
          IF HasIds(itemsState, product.id, product.variantId)
          THEN Invoked("toggle",
                       Call(log.started + 1, "remove", "remove", <<NewItem(product)>>),
                       removeStart(Ctl, config, product.id, product.variantId))
          ELSE Invoked("toggle",
                       Call(log.started + 1, "add", "add", <<NewItem(product)>>),
                       addStart(Ctl, config, product))

\* clear()
Clear ==
    /\ Invocable
    /\ LET run == clear(Ctl, config)
       IN  Invoked("clear", Call(log.started + 1, "clear", "clear", <<>>),
                   [threw |-> run.threw, value |-> run.value, fetch |-> FALSE])

\* sync()
Sync ==
    /\ Invocable
    /\ LET run == syncStart(Ctl, config)
       IN  Invoked("sync", Call(log.started + 1, "sync", "sync", run.guestItems), run)

\* A handler that awaited as `call` ran from the response res to its end.
Settled(call, res, outcome) ==
    /\ Becomes(outcome.value)
    /\ calls' = calls \ {call}
    /\ log' = Logged("settle", call, Some(res), FALSE, outcome.threw)
    /\ UNCHANGED <<utilVars, config>>

\* The response to a sync request arrives: syncWishlist runs to its end,
\* then the loadItems or sync() that awaited it.
SyncResponse ==
    \E call \in calls, res \in SyncResponses :
        /\ call.kind = "sync"
        /\ LET awaited == syncWishlistSettle(Ctl, res)
           IN  Settled(call, res,
                       IF call.caller = "loadItems" THEN loadItemsSettle(awaited)
                       ELSE awaited)

\* The response to the update request of an add arrives.
AddResponse ==
    \E call \in calls, res \in UpdateResponses :
        /\ call.kind = "add"
        /\ Settled(call, res, addSettle(Ctl, call.arg[1], res))

\* The response to the update request of a remove arrives.
RemoveResponse ==
    \E call \in calls, res \in UpdateResponses :
        /\ call.kind = "remove"
        /\ Settled(call, res, removeSettle(Ctl, res))

Next ==
    \/ LoadItems
    \/ Add
    \/ Remove
    \/ Toggle
    \/ Clear
    \/ Sync
    \/ SyncResponse
    \/ AddResponse
    \/ RemoveResponse

Spec == Init /\ [][Next]_vars

(***************************************************************************)
(* The provider with time.  REQUEST_TIMEOUT_MS is exported by the          *)
(* constants but no fetch of the provider is given an AbortSignal or a     *)
(* timer, so when that time has passed since a request was issued and no   *)
(* answer has come, no code runs: the handler still awaits.  The step is   *)
(* kept in the history only.                                               *)
(***************************************************************************)
RequestTimeout ==
    \E call \in calls :
        /\ ~call.overdue
        /\ calls' = (calls \ {call}) \cup {[call EXCEPT !.overdue = TRUE]}
        /\ log' = [log EXCEPT !.last = [step |-> "timeout",
                                        call |-> [call EXCEPT !.overdue = TRUE],
                                        res |-> Missing, threw |-> FALSE,
                                        callback |-> "none"]]
        /\ UNCHANGED <<utilVars, ls, config, itemsState, isLoading, isSyncing, error>>

NextTimed == Next \/ RequestTimeout

SpecTimed == Init /\ [][NextTimed]_vars

(***************************************************************************)
(* The provider in guest mode, with the products a caller may hand to add: *)
(* ProductInfo.title is any string, the empty one included.                *)
(***************************************************************************)
GuestProducts ==
    Products \cup
    { ProductInfo(<<"p3", Missing>>, "", Missing, Missing, Missing, Price("10.00")) }

\* No customerId, guest wishlist enabled.
InitGuest ==
    /\ Init
    /\ isGuest(config)
    /\ enableGuestWishlist(config)

\* add(product)
GuestAdd ==
    /\ Invocable
    /\ \E product \in GuestProducts :
          Invoked("add", Call(log.started + 1, "add", "add", <<NewItem(product)>>),
                  addStart(Ctl, config, product))

\* remove(productId, variantId)
GuestRemove ==
    /\ Invocable
    /\ \E product \in GuestProducts :
          Invoked("remove",
                  Call(log.started + 1, "remove", "remove", <<NewItem(product)>>),
                  removeStart(Ctl, config, product.id, product.variantId))

\* toggle(product)
GuestToggle ==
    /\ Invocable
    /\ \E product \in GuestProducts :
          IF HasIds(itemsState, product.id, product.variantId)
          THEN Invoked("toggle",
                       Call(log.started + 1, "remove", "remove", <<NewItem(product)>>),
                       removeStart(Ctl, config, product.id, product.variantId))
          ELSE Invoked("toggle",
                       Call(log.started + 1, "add", "add", <<NewItem(product)>>),
                       addStart(Ctl, config, product))

NextGuest == LoadItems \/ GuestAdd \/ GuestRemove \/ GuestToggle \/ Clear

SpecGuest == InitGuest /\ [][NextGuest]_vars

(***************************************************************************)
(* Vocabulary of the properties.                                           *)
(***************************************************************************)

\* The identity key of an item is the value createItemKey gives it.
KeysOf(s) == { createItemKey(s[i]) : i \in 1..Len(s) }

IdPairOf(item) == <<item.productId, item.variantId>>

\* The positions of s that hold an item with key k.
PositionsOf(s, k) == { i \in 1..Len(s) : createItemKey(s[i]) = k }

LastWithKey(s, k) ==
    s[CHOOSE i \in PositionsOf(s, k) : \A j \in PositionsOf(s, k) : j <= i]

\* The subsequence of s at the positions I, in order.
SubseqAt(s, I) ==
    [k \in 1..Cardinality(I) |->
        s[CHOOSE i \in I : Cardinality({ j \in I : j < i }) = k - 1]]

Min(S) == CHOOSE x \in S : \A y \in S : x <= y

Count(s, x) == Cardinality({ i \in 1..Len(s) : s[i] = x })

IsPermutation(s, t) ==
    /\ Len(s) = Len(t)
    /\ \A x \in Range(s) \cup Range(t) : Count(s, x) = Count(t, x)

Merged == op \in { "mergeWishlists", "remerge" }

OptionalFields ==
    { "variantId", "productHandle", "variantTitle", "image", "price" }

\* Key k is the key of exactly one guest item and of exactly one customer
\* item, and the guest item was added strictly earlier.
GuestStrictlyEarlier(k) ==
    /\ Cardinality(PositionsOf(guestItems, k)) = 1
    /\ Cardinality(PositionsOf(customerItems, k)) = 1
    /\ DateGetTime(LastWithKey(guestItems, k).addedAt)
         < DateGetTime(LastWithKey(customerItems, k).addedAt)

(***************************************************************************)
(* C1.  The list mergeWishlists returns never holds two items with the     *)
(* same (productId, variantId), nor two with the same key, whatever the    *)
(* inputs, lists with repeated keys included.                              *)
(***************************************************************************)
C1_MergeIdentityUnique ==
    Merged =>
        \A i, j \in 1..Len(result) :
            i # j => /\ IdPairOf(result[i]) # IdPairOf(result[j])
                     /\ createItemKey(result[i]) # createItemKey(result[j])

\* A merge of a guest list that repeats a key the customer list holds too.
C1_Witness ==
    /\ op = "mergeWishlists"
    /\ Len(guestItems) = 2
    /\ IdPairOf(guestItems[1]) = IdPairOf(guestItems[2])
    /\ \E c \in 1..Len(customerItems) :
          IdPairOf(customerItems[c]) = IdPairOf(guestItems[1])
    /\ Len(result) = 2

(***************************************************************************)
(* C2.  For every key that occurs in both lists, the merged item with that *)
(* key carries the earliest instant among the guest items with that key    *)
(* and the customer item with that key (the last one, should the customer  *)
(* list repeat the key), and its addedAt is the string of one of them.     *)
(* With one item per key in each list this is min(guest, customer).        *)
(***************************************************************************)
C2_EarliestAddedAt ==
    op = "mergeWishlists" =>
        \A k \in KeysOf(guestItems) \cap KeysOf(customerItems) :
            LET candidates ==
                    { guestItems[i].addedAt : i \in PositionsOf(guestItems, k) }
                        \cup { LastWithKey(customerItems, k).addedAt }
            IN  \E i \in 1..Len(result) :
                    /\ createItemKey(result[i]) = k
                    /\ result[i].addedAt \in candidates
                    /\ DateGetTime(result[i].addedAt)
                         = Min({ DateGetTime(a) : a \in candidates })

\* One key whose guest item is the earlier one, another whose customer item
\* is, each once in each list.
C2_Witness ==
    /\ op = "mergeWishlists"
    /\ \E k1, k2 \in KeysOf(guestItems) \cap KeysOf(customerItems) :
          /\ k1 # k2
          /\ GuestStrictlyEarlier(k1)
          /\ DateGetTime(LastWithKey(guestItems, k2).addedAt)
               > DateGetTime(LastWithKey(customerItems, k2).addedAt)
          /\ LastWithKey(result, k1).addedAt = LastWithKey(guestItems, k1).addedAt
          /\ LastWithKey(result, k2).addedAt
               = LastWithKey(customerItems, k2).addedAt

(***************************************************************************)
(* C3.  mergeWishlists(A, B) has as many items as there are distinct keys  *)
(* in A and B together, and the keys of the result are exactly those keys. *)
(***************************************************************************)
C3_MergeIsUnion ==
    op = "mergeWishlists" =>
        /\ Len(result) = Cardinality(KeysOf(guestItems) \cup KeysOf(customerItems))
        /\ KeysOf(result) = KeysOf(guestItems) \cup KeysOf(customerItems)

\* A shared key, a key only the guest has and a key only the customer has.
C3_Witness ==
    /\ op = "mergeWishlists"
    /\ KeysOf(guestItems) \cap KeysOf(customerItems) # {}
    /\ KeysOf(guestItems) \ KeysOf(customerItems) # {}
    /\ KeysOf(customerItems) \ KeysOf(guestItems) # {}
    /\ Len(result) = 3

(***************************************************************************)
(* C4.  mergeWishlists(A, mergeWishlists(A, B)) holds exactly the items of *)
(* mergeWishlists(A, B): the same items, all fields equal, as many.        *)
(***************************************************************************)
C4_RemergeIdempotent ==
    op = "remerge" =>
        /\ Range(result) = Range(prev)
        /\ Len(result) = Len(prev)

\* A re-merge after a merge that rewrote an entry from an earlier guest item.
C4_Witness ==
    /\ op = "remerge"
    /\ \E k \in KeysOf(guestItems) \cap KeysOf(customerItems) :
          GuestStrictlyEarlier(k)
    /\ Len(prev) >= 2

(***************************************************************************)
(* C5, as stated: when the guest item is strictly earlier than the         *)
(* customer item with its key, the surviving item is the customer item     *)
(* with only addedAt taken from the guest item.                            *)
(***************************************************************************)
C5_AsStated ==
    op = "mergeWishlists" =>
        \A k \in KeysOf(guestItems) \cap KeysOf(customerItems) :
            GuestStrictlyEarlier(k) =>
                LastWithKey(result, k) =
                    [LastWithKey(customerItems, k) EXCEPT
                        !.addedAt = LastWithKey(guestItems, k).addedAt]

(***************************************************************************)
(* C5, amended: in that case the surviving item takes addedAt and every    *)
(* other property the guest item has from the guest item, and from the     *)
(* customer item only the properties the guest item lacks.                 *)
(***************************************************************************)
C5_GuestPropertiesWin ==
    op = "mergeWishlists" =>
        \A k \in KeysOf(guestItems) \cap KeysOf(customerItems) :
            GuestStrictlyEarlier(k) =>
                LET g == LastWithKey(guestItems, k)
                    c == LastWithKey(customerItems, k)
                    m == LastWithKey(result, k)
                IN  /\ m.addedAt = g.addedAt
                    /\ m.productId = g.productId
                    /\ m.productTitle = g.productTitle
                    /\ \A f \in OptionalFields :
                          m[f] = IF g[f] # Missing THEN g[f] ELSE c[f]

\* An earlier guest item with its own title and price and no handle, and a
\* customer item with another title and price and a handle.
C5_Witness ==
    /\ op = "mergeWishlists"
    /\ \E k \in KeysOf(guestItems) \cap KeysOf(customerItems) :
          /\ GuestStrictlyEarlier(k)
          /\ LET g == LastWithKey(guestItems, k)
                 c == LastWithKey(customerItems, k)
             IN  /\ g.productTitle # c.productTitle
                 /\ g.price # Missing /\ g.price # c.price
                 /\ g.productHandle = Missing /\ c.productHandle # Missing

(***************************************************************************)
(* C6.  The list mergeWishlists returns is ordered by addedAt, newest      *)
(* first: no item is followed by one added later.                          *)
(***************************************************************************)
C6_MergeNewestFirst ==
    Merged =>
        \A i, j \in 1..Len(result) :
            i < j => DateGetTime(result[i].addedAt)
                        >= DateGetTime(result[j].addedAt)

\* The Map held an older item before a newer one, and the result has three
\* instants.
C6_Witness ==
    /\ op = "mergeWishlists"
    /\ Len(customerItems) = 2
    /\ createItemKey(customerItems[1]) # createItemKey(customerItems[2])
    /\ DateGetTime(customerItems[1].addedAt)
         < DateGetTime(customerItems[2].addedAt)
    /\ Cardinality({ DateGetTime(result[i].addedAt) : i \in 1..Len(result) }) = 3

(***************************************************************************)
(* C7.  deduplicateItems returns the subsequence of its input made of the  *)
(* first occurrence of each key, in input order; it returns an input       *)
(* without repeated key unchanged; applied to its own result it returns    *)
(* that result.                                                            *)
(***************************************************************************)
FirstOccurrences(s) ==
    { i \in 1..Len(s) :
        \A j \in 1..(i - 1) : createItemKey(s[j]) # createItemKey(s[i]) }

C7_DedupFirstOccurrences ==
    /\ op = "deduplicateItems" =>
          /\ result = SubseqAt(DedupInput, FirstOccurrences(DedupInput))
          /\ Cardinality(KeysOf(DedupInput)) = Len(DedupInput)
                => result = DedupInput
    /\ op = "rededup" =>
          /\ prev = SubseqAt(DedupInput, FirstOccurrences(DedupInput))
          /\ result = prev

\* The input repeats a key after an item with another key, the two
\* occurrences differ, and the first one was kept.
C7_Witness ==
    /\ op = "rededup"
    /\ \E i, j \in 1..Len(DedupInput) :
          /\ i + 1 < j
          /\ createItemKey(DedupInput[i]) = createItemKey(DedupInput[j])
          /\ createItemKey(DedupInput[i]) # createItemKey(DedupInput[i + 1])
          /\ DedupInput[i] # DedupInput[j]
          /\ i \in FirstOccurrences(DedupInput)
          /\ DedupInput[i] \in Range(prev)
          /\ DedupInput[j] \notin Range(prev)
    /\ Len(prev) >= 2

(***************************************************************************)
(* C8.  findNewItems(before, after) returns the items of after whose key   *)
(* is the key of no item of before, in the order of after: nothing when    *)
(* every key of after occurs in before, all of after when before is empty. *)
(***************************************************************************)
C8_FindNewItems ==
    op = "findNewItems" =>
        /\ result = SubseqAt(customerItems,
                        { i \in 1..Len(customerItems) :
                            createItemKey(customerItems[i])
                                \notin KeysOf(guestItems) })
        /\ KeysOf(customerItems) \subseteq KeysOf(guestItems) => result = <<>>
        /\ guestItems = <<>> => result = customerItems

\* Of two items of after, the second is new and the first is not.
C8_Witness ==
    /\ op = "findNewItems"
    /\ guestItems # <<>>
    /\ Len(customerItems) = 2
    /\ createItemKey(customerItems[1]) \in KeysOf(guestItems)
    /\ result = <<customerItems[2]>>

(***************************************************************************)
(* C9, as stated: in the list sortByPriceLowToHigh returns and in the list *)
(* sortByPriceHighToLow returns, no item without a price comes before an   *)
(* item with a price, whatever the amounts (0 included).                   *)
(***************************************************************************)
C9_NoPriceLast ==
    op \in { "sortByPriceLowToHigh", "sortByPriceHighToLow" } =>
        \A i, j \in 1..Len(heap[ret]) :
            i < j => ~(heap[ret][i].price = Missing
                        /\ heap[ret][j].price # Missing)

(***************************************************************************)
(* C10.  A sort view changes no array that existed before the call, so the *)
(* caller's list keeps its items at their positions, and it returns a new  *)
(* array that is a permutation of the caller's list.                       *)
(***************************************************************************)
C10_SortViewsLeaveInput ==
    [][op' # op =>
          /\ \A r \in 1..Len(heap) : heap'[r] = heap[r]
          /\ ret' \notin 1..Len(heap)
          /\ IsPermutation(heap'[ret'], heap[ItemsRef])]_vars

\* A view has run on a list of three and returned it reordered, the last
\* item first.
C10_Witness ==
    /\ op # "init"
    /\ Len(heap[ItemsRef]) = 3
    /\ heap[ret] # heap[ItemsRef]
    /\ heap[ret][1] = heap[ItemsRef][3]

\* The wishlist text in localStorage.
Stored == ls.wishlistItems

\* localStorage can be written (the probe of isStorageAvailable passes) and
\* read.
StorageUsable == ls.window /\ ls.mode \in {"ok", "quota"}

\* The stored text is the text of a JSON array.
StoredArray == Stored.kind = "json" /\ Stored.value.json = "array"

\* v is an object whose productId, productTitle and addedAt are non-empty
\* strings.
HasRequiredStrings(v) ==
    /\ v.json = "object"
    /\ \A name \in {"productId", "productTitle", "addedAt"} :
          /\ name \in DOMAIN v.props
          /\ v.props[name].json = "string"
          /\ v.props[name].s # ""

\* new Date(addedAt) is a valid date (its getTime() is not NaN).
DateIsValid(addedAt) ==
    addedAt \in { "2024-01-01T00:00:00Z", "2024-01-10T00:00:00Z",
                  "2024-01-10T00:00:00.000Z", "2024-01-15T00:00:00Z",
                  "2024-01-20T00:00:00.000Z", "2024-02-01T00:00:00Z" }

(***************************************************************************)
(* C11.  getStoredItems never throws.  It returns the empty list when      *)
(* storage is unavailable or the stored value is missing, empty, no JSON   *)
(* text or no array; otherwise it returns the records of the stored array  *)
(* that pass validation (an object with non-empty string productId,        *)
(* productTitle and addedAt), all of them, in stored order.                *)
(***************************************************************************)
C11_GetStoredItemsNeverFails ==
    op = "getStoredItems" =>
        /\ ~result.threw
        /\ IF StorageUsable /\ StoredArray
           THEN LET elems == Stored.value.elems
                    good == { i \in 1..Len(elems) : HasRequiredStrings(elems[i]) }
                    kept == SubseqAt(elems, good)
                IN  result.value = [k \in 1..Len(kept) |-> AsWishlistItem(kept[k])]
           ELSE result.value = <<>>

\* getStoredItems has read an array of three valid records and one corrupt
\* record, and returned three items.
C11_Witness ==
    /\ op = "getStoredItems"
    /\ StorageUsable /\ StoredArray
    /\ Len(Stored.value.elems) = 4
    /\ Cardinality({ i \in 1..4 : Stored.value.elems[i] \in CorruptRecords }) = 1
    /\ Cardinality({ i \in 1..4 : Stored.value.elems[i] \in ValidRecords }) = 3
    /\ ~result.threw
    /\ Len(result.value) = 3

(***************************************************************************)
(* C12, as stated: every item getStoredItems returns has a non-empty       *)
(* productId, a non-empty productTitle and an addedAt that parses as a     *)
(* date.                                                                   *)
(***************************************************************************)
C12_KeptOnlyIfDated ==
    (op = "getStoredItems" /\ ~result.threw) =>
        \A i \in 1..Len(result.value) :
            /\ result.value[i].productId # ""
            /\ result.value[i].productTitle # ""
            /\ DateIsValid(result.value[i].addedAt)

\* The last step of the provider and the call it ran.
Last == log.last

\* The last step ran a handler of kind `kind` from its response to its end,
\* and no other handler was invoked since that handler was.
SettledAlone(kind) ==
    /\ Last.step = "settle"
    /\ Last.call.kind = kind
    /\ Last.call.alone

\* The last step ran loadItems from the response of its merge-sync to its
\* end, and no operation was invoked before that.
InitSettledAlone ==
    /\ SettledAlone("sync")
    /\ Last.call.caller = "loadItems"

\* The response the last step handled.
LastRes == Last.res[1]

\* The body of res says success: true.
SaysSuccess(res) ==
    IF res.json = Missing THEN FALSE ELSE res.json[1].success

\* res is a transport failure, a non-2xx status or a success: false body.
RemoteFailure(res) ==
    IF res.fetch = "rejected" THEN TRUE
    ELSE IF ~ResOk(res) THEN TRUE
    ELSE res.json # Missing /\ ~res.json[1].success

\* res is a 2xx response whose body says success: true.
RemoteSuccess(res) ==
    IF res.fetch = "rejected" THEN FALSE ELSE ResOk(res) /\ SaysSuccess(res)

\* res is a 2xx response whose body is no JSON.
NonJsonBody(res) ==
    IF res.fetch = "rejected" THEN FALSE ELSE ResOk(res) /\ res.json = Missing

\* The <<productId, variantId>> pairs of the array are pairwise different.
PairUnique(array) ==
    \A i, j \in 1..Len(array) : IdPairOf(array[i]) = IdPairOf(array[j]) => i = j

\* The array without the items of the pair id, the others in their order.
Without(array, id) ==
    SubseqAt(array, { i \in 1..Len(array) : IdPairOf(array[i]) # id })

(***************************************************************************)
(* C13.  A request to the backend is issued, and a handler awaits a        *)
(* response, only under a configuration with a customerId and an apiKey;   *)
(* a guest provider issues none, whatever operations are invoked.          *)
(***************************************************************************)
C13_RequestsNeedCustomerAndKey ==
    (log.requests # {} \/ calls # {}) =>
        config.customerId # Missing /\ config.apiKey # Missing

\* A guest provider configured with an apiKey has run sync() after another
\* operation, and no request was issued.
C13_Witness ==
    /\ config.customerId = Missing
    /\ config.apiKey # Missing
    /\ Last.step = "sync"
    /\ log.started = 2
    /\ log.requests = {}

(***************************************************************************)
(* C14, as stated: when the update request of an add(P) fails, the add     *)
(* ends with the in-memory collection equal to what it was when add was    *)
(* invoked, whether or not an item with P's ids was in it.                 *)
(***************************************************************************)
C14_FailedAddRestores ==
    (SettledAlone("add") /\ RemoteFailure(LastRes)) =>
        itemsState = Last.call.before

(***************************************************************************)
(* C15.  When the update request of a remove fails, the remove ends with   *)
(* no item of the removed ids in memory, with error set, and with the      *)
(* other items as they were, in their order, when remove was invoked.      *)
(***************************************************************************)
C15_FailedRemoveNotRestored ==
    (SettledAlone("remove") /\ RemoteFailure(LastRes)) =>
        /\ ~\E i \in 1..Len(itemsState) :
              IdPairOf(itemsState[i]) = IdPairOf(Last.call.arg[1])
        /\ error # Missing
        /\ itemsState = Without(Last.call.before, IdPairOf(Last.call.arg[1]))

\* A remove of an item that was in memory with another one has failed.
C15_Witness ==
    /\ SettledAlone("remove")
    /\ RemoteFailure(LastRes)
    /\ Len(Last.call.before) = 2
    /\ Len(itemsState) = 1
    /\ error # Missing

(***************************************************************************)
(* C16, as stated: when the merge-sync of loadItems fails (transport       *)
(* failure, non-2xx, 429 or success: false), loadItems ends with the       *)
(* stored items in memory, localStorage still holding them, isLoading      *)
(* false and error set.                                                    *)
(***************************************************************************)
C16_FailedMergeFallsBack ==
    (InitSettledAlone /\ RemoteFailure(LastRes)) =>
        /\ itemsState = Last.call.arg
        /\ getStoredItems(ls).value = Last.call.arg
        /\ ~isLoading
        /\ error # Missing

(***************************************************************************)
(* C17, as stated: when the merge-sync of loadItems succeeds, loadItems    *)
(* ends with the items of the response in memory, the wishlist removed     *)
(* from localStorage, error unset and isLoading false, whether the         *)
(* response carries items, an empty items list or no items at all.         *)
(***************************************************************************)
C17_MergeSuccessReplaces ==
    (InitSettledAlone /\ RemoteSuccess(LastRes)) =>
        /\ LastRes.json[1].items # Missing => itemsState = LastRes.json[1].items[1]
        /\ ls.wishlistItems = NoValue
        /\ error = Missing
        /\ ~isLoading

(***************************************************************************)
(* C18.  No handler's promise rejects, whatever the response and whatever  *)
(* localStorage does; a handler that got a failed response (transport      *)
(* failure, non-2xx, non-JSON body, success: false) ends with error set.   *)
(***************************************************************************)
C18_NothingRejects ==
    /\ ~log.rejected
    /\ (Last.step = "settle" /\ (RemoteFailure(LastRes) \/ NonJsonBody(LastRes)))
           => error # Missing

\* An add has handled a 2xx response with a non-JSON body, on a browser
\* whose localStorage quota is exceeded, after another operation.
C18_Witness ==
    /\ Last.step = "settle"
    /\ Last.call.kind = "add"
    /\ NonJsonBody(LastRes)
    /\ ls.mode = "quota"
    /\ log.started = 2
    /\ ~log.rejected
    /\ error = Some(DEFAULT_ERROR_MESSAGES.network)

(***************************************************************************)
(* C19.  The step that handles a 429 answer to a sync request sets error   *)
(* to the rate-limited message and leaves the in-memory collection and     *)
(* localStorage as they were; that message is none of the network,         *)
(* sync-failed and unknown messages.                                       *)
(***************************************************************************)
C19_RateLimited ==
    [][(/\ log'.last.step = "settle"
        /\ log'.last.call.kind = "sync"
        /\ log'.last.res = Some(Response(429, Missing)))
       => /\ error' = Some(DEFAULT_ERROR_MESSAGES.rateLimited)
          /\ DEFAULT_ERROR_MESSAGES.rateLimited \notin
                 { DEFAULT_ERROR_MESSAGES.network,
                   DEFAULT_ERROR_MESSAGES.syncFailed,
                   DEFAULT_ERROR_MESSAGES.unknown }
          /\ itemsState' = itemsState
          /\ ls' = ls]_vars

\* A merge-sync was answered 429 while items were in memory and in
\* localStorage.
C19_Witness ==
    /\ Last.step = "settle"
    /\ Last.call.kind = "sync"
    /\ Last.res = Some(Response(429, Missing))
    /\ error = Some(DEFAULT_ERROR_MESSAGES.rateLimited)
    /\ itemsState # <<>>
    /\ Len(getStoredItems(ls).value) = 2

(***************************************************************************)
(* C20.  The in-memory collection never holds two items with the same      *)
(* (productId, variantId), given a key-unique localStorage at mount and    *)
(* key-unique server collections.                                          *)
(***************************************************************************)
C20_MemoryPairUnique == PairUnique(itemsState)

\* add was invoked for a product whose ids were already in memory, next to
\* another item.
C20_Witness ==
    /\ Last.step = "add"
    /\ \E i \in 1..Len(Last.call.before) :
          IdPairOf(Last.call.before[i]) = IdPairOf(Last.call.arg[1])
    /\ Len(itemsState) = 2

(***************************************************************************)
(* C21, as stated: useWishlistSync runs onSyncSuccess only when the        *)
(* merge-sync of the sync it wrapped succeeded, and runs onSyncError when  *)
(* that merge-sync failed (transport failure, non-2xx, 429 or success:     *)
(* false).                                                                 *)
(***************************************************************************)
C21_SyncCallbackMatchesOutcome ==
    /\ Last.callback = "onSyncSuccess" =>
           (Last.step = "settle" /\ RemoteSuccess(LastRes))
    /\ (Last.step = "settle" /\ Last.call.caller = "sync" /\ RemoteFailure(LastRes))
           => Last.callback = "onSyncError"

(***************************************************************************)
(* C22, as stated: when the update request of an add fails and the add is  *)
(* rolled back, useWishlist runs onError and does not run onAdd.           *)
(***************************************************************************)
C22_OnAddOnlyWhenAdded ==
    (Last.step = "settle" /\ Last.call.kind = "add" /\ RemoteFailure(LastRes))
        => Last.callback = "onError"

(***************************************************************************)
(* C23, as stated: when the update request of an add fails, error is the   *)
(* network message after a transport failure and the sync-failed message   *)
(* after a success: false or non-2xx answer that carries no message of its *)
(* own; it is never the unknown-error message.                             *)
(***************************************************************************)
C23_FailedAddErrorMessage ==
    (Last.step = "settle" /\ Last.call.kind = "add" /\ RemoteFailure(LastRes)) =>
        /\ error # Some(DEFAULT_ERROR_MESSAGES.unknown)
        /\ LastRes.fetch = "rejected" => error = Some(DEFAULT_ERROR_MESSAGES.network)
        /\ (LastRes.fetch # "rejected" /\ LastRes.json # Missing
                                      /\ LastRes.json[1].error = Missing)
               => error = Some(DEFAULT_ERROR_MESSAGES.syncFailed)

(***************************************************************************)
(* C24, as stated: every operation clears error when it starts, so after   *)
(* an add, remove, toggle, clear or sync that completed successfully       *)
(* (locally without a request, or by a success response, no other handler  *)
(* invoked meanwhile) error is unset, whatever an earlier operation left.  *)
(***************************************************************************)
C24_ErrorClearedByLaterOperation ==
    LET completedLocally ==
            /\ Last.step \in {"add", "remove", "toggle", "clear"}
            /\ Last.call \notin calls
            /\ ~Last.threw
        completedRemotely ==
            /\ Last.step = "settle"
            /\ Last.call.caller # "loadItems"
            /\ Last.call.alone
            /\ RemoteSuccess(LastRes)
    IN  (completedLocally \/ completedRemotely) => error = Missing

(***************************************************************************)
(* C25, as stated: in every state isSyncing is true exactly when a         *)
(* merge-sync request is in flight, also when two syncs overlap; and       *)
(* isLoading is false in every state after the initial load has finished.  *)
(***************************************************************************)
C25_FlagsTrackRequests ==
    /\ isSyncing <=> \E c \in calls : c.kind = "sync"
    /\ (log.mounted /\ \A c \in calls : c.caller # "loadItems") => ~isLoading

(***************************************************************************)
(* C26, as stated: while the update request of an add or a remove is in    *)
(* flight, isLoading or isSyncing is true.                                 *)
(***************************************************************************)
C26_BusyWhileUpdateInFlight ==
    (\E c \in calls : c.kind \in {"add", "remove"}) => (isLoading \/ isSyncing)

(***************************************************************************)
(* C27, as stated: a request the backend does not answer is given up when  *)
(* the timeout has passed, so the operation that issued it completes (as a *)
(* network failure): no handler still awaits a request whose timeout has   *)
(* passed.                                                                 *)
(***************************************************************************)
C27_NoRequestOutlivesTimeout ==
    \A c \in calls : ~c.overdue

(***************************************************************************)
(* C28: in identified mode, a step changes localStorage only when it       *)
(* handles the success response of a merge-sync: add, remove, toggle,      *)
(* clear and the failed or rate-limited syncs leave the stored guest items *)
(* as they are.                                                            *)
(***************************************************************************)
C28_StorageKeptUntilMergeSucceeds ==
    [][(~isGuest(config) /\ ls' # ls) =>
           /\ log'.last.step = "settle"
           /\ log'.last.call.kind = "sync"
           /\ RemoteSuccess(log'.last.res[1])]_vars

\* A merge-sync that carried stored guest items has succeeded and the
\* stored items are gone.
C28_Witness ==
    /\ ~isGuest(config)
    /\ Last.step = "settle"
    /\ Last.call.kind = "sync"
    /\ Last.call.arg # <<>>
    /\ RemoteSuccess(LastRes)
    /\ Stored = NoValue

(***************************************************************************)
(* C29: the rollback of an add whose update failed takes every item with   *)
(* the product's ids out of the in-memory collection, whatever other       *)
(* handlers did while the update was pending.  So there is an              *)
(* interleaving (the witness) where a second add of the same product ran   *)
(* and was acknowledged by the backend while the first was pending, and    *)
(* the first's rollback then removes the item the backend holds.           *)
(***************************************************************************)
C29_RollbackOverwritesOverlap ==
    (Last.step = "settle" /\ Last.call.kind = "add" /\ ~RemoteSuccess(LastRes)) =>
        ~HasIds(itemsState, Last.call.arg[1].productId, Last.call.arg[1].variantId)

\* Only update requests were ever issued; the add that has just been rolled
\* back was overlapped by another handler, the backend has acknowledged an
\* add of the same product, and the product was not in memory before.
C29_Witness ==
    /\ Last.step = "settle"
    /\ Last.call.kind = "add"
    /\ RemoteFailure(LastRes)
    /\ ~Last.call.alone
    /\ ~HasIds(Last.call.before, Last.call.arg[1].productId, Last.call.arg[1].variantId)
    /\ log.requests = {"/api/v1/update"}
    /\ IdPairOf(Last.call.arg[1]) \in log.acked
    /\ ~HasIds(itemsState, Last.call.arg[1].productId, Last.call.arg[1].variantId)

C31_ToggleInverts ==
    LET P == Last.call.arg[1]
        wasIn == HasIds(Last.call.before, P.productId, P.variantId)
        isIn == HasIds(itemsState, P.productId, P.variantId)
    IN  /\ Last.step = "toggle" => (isIn <=> ~wasIn)
        /\ (/\ Last.step = "settle"
            /\ Last.call.kind \in {"add", "remove"}
            /\ Last.call.kind = "remove" <=> wasIn
            /\ Last.call.alone
            /\ RemoteSuccess(LastRes))
               => (isIn <=> ~wasIn)

\* The second of two operations was a toggle of a product that was in the
\* collection, and the product is out of it.
C31_Witness ==
    /\ Last.step = "toggle"
    /\ log.started = 2
    /\ HasIds(Last.call.before, Last.call.arg[1].productId, Last.call.arg[1].variantId)
    /\ ~HasIds(itemsState, Last.call.arg[1].productId, Last.call.arg[1].variantId)

(***************************************************************************)
(* C32: clear empties the in-memory collection under every configuration.  *)
(* In guest mode (no customerId, guest wishlist enabled) it also removes   *)
(* the stored items, so that nothing is read back.  In identified mode it  *)
(* issues no request and leaves localStorage, isLoading, isSyncing and     *)
(* error as they were.                                                     *)
(***************************************************************************)
C32_ClearEffects ==
    [][(log'.last.step = "clear" /\ log'.started = log.started + 1) =>
           /\ itemsState' = <<>>
           /\ (isGuest(config) /\ enableGuestWishlist(config)) =>
                  /\ getStoredItems(ls').value = <<>>
                  /\ ls.window => ls'.wishlistItems = NoValue
           /\ ~isGuest(config) =>
                  /\ log'.last.call \notin calls'
                  /\ log'.requests = log.requests
                  /\ ls' = ls
                  /\ isLoading' = isLoading
                  /\ isSyncing' = isSyncing
                  /\ error' = error]_vars

\* A guest provider that held items, in memory and in localStorage, has run
\* clear, and localStorage holds no items.
C32_Witness ==
    /\ Last.step = "clear"
    /\ isGuest(config)
    /\ enableGuestWishlist(config)
    /\ Last.call.before # <<>>
    /\ ls.window
    /\ Stored = NoValue
    /\ itemsState = <<>>

(***************************************************************************)
(* C33: in guest mode, an add whose item did not reach localStorage (no    *)
(* storage, or the write threw for lack of room) keeps the item in the     *)
(* in-memory collection, leaves error as it was and does not reject.       *)
(***************************************************************************)
C33_StorageFailureKeepsItem ==
    [][(/\ log'.last.step \in {"add", "toggle"}
        /\ log'.started = log.started + 1
        /\ log'.last.call.kind = "add"
        /\ isGuest(config) /\ enableGuestWishlist(config)
        /\ ~HasIds(getStoredItems(ls').value, log'.last.call.arg[1].productId,
                   log'.last.call.arg[1].variantId))
           => /\ HasIds(itemsState', log'.last.call.arg[1].productId,
                        log'.last.call.arg[1].variantId)
              /\ error' = error
              /\ error' = Missing
              /\ ~log'.last.threw]_vars

\* A guest add on a full localStorage: the item is in memory and not in
\* the storage, and no error is set.
C33_Witness ==
    /\ Last.step = "add"
    /\ isGuest(config) /\ enableGuestWishlist(config)
    /\ ls.window /\ ls.mode = "quota"
    /\ ~HasIds(Last.call.before, Last.call.arg[1].productId, Last.call.arg[1].variantId)
    /\ HasIds(itemsState, Last.call.arg[1].productId, Last.call.arg[1].variantId)
    /\ ~HasIds(getStoredItems(ls).value, Last.call.arg[1].productId,
               Last.call.arg[1].variantId)
    /\ error = Missing

(***************************************************************************)
(* C34: in the list mergeWishlists returns, a key that a customer item and *)
(* guest items share, none of the guest items added strictly earlier than  *)
(* the customer item (same instant, or later), is held by the customer     *)
(* item itself, every field as it was, its addedAt string included.        *)
(***************************************************************************)
C34_TieKeepsCustomerItem ==
    op = "mergeWishlists" =>
        \A k \in KeysOf(guestItems) \cap KeysOf(customerItems) :
            LET c == LastWithKey(customerItems, k)
            IN  (\A i \in PositionsOf(guestItems, k) :
                     DateGetTime(guestItems[i].addedAt) >= DateGetTime(c.addedAt))
                    => /\ Cardinality(PositionsOf(result, k)) = 1
                       /\ LastWithKey(result, k) = c

\* A guest item added at the same instant as the customer item of its key
\* (written differently) and one added later than the customer item of
\* its key: both customer items are in the result as they were.
C34_Witness ==
    /\ op = "mergeWishlists"
    /\ \E k1, k2 \in KeysOf(guestItems) \cap KeysOf(customerItems) :
          /\ k1 # k2
          /\ DateGetTime(LastWithKey(guestItems, k1).addedAt)
               = DateGetTime(LastWithKey(customerItems, k1).addedAt)
          /\ LastWithKey(guestItems, k1).addedAt # LastWithKey(customerItems, k1).addedAt
          /\ LastWithKey(guestItems, k1).productTitle
               # LastWithKey(customerItems, k1).productTitle
          /\ DateGetTime(LastWithKey(guestItems, k2).addedAt)
               > DateGetTime(LastWithKey(customerItems, k2).addedAt)
          /\ LastWithKey(result, k1) = LastWithKey(customerItems, k1)
          /\ LastWithKey(result, k2) = LastWithKey(customerItems, k2)

(***************************************************************************)
(* C35: mergeWishlists, findNewItems and deduplicateItems write no array   *)
(* and no object that existed before the call, so both argument lists and  *)
(* every item in them are as the caller built them; and the list returned  *)
(* is the function of the arguments alone, whatever was called before.     *)
(***************************************************************************)
C35_UtilitiesArePure ==
    [][Len(prev') > Len(prev) =>
           /\ Len(heap') > Len(heap)
           /\ \A r \in 1..Len(heap) : heap'[r] = heap[r]
           /\ Deref(heap', GuestRef) = guestItems
           /\ Deref(heap', CustomerRef) = customerItems
           /\ ret' > Len(heap)
           /\ result' = CASE op' = "mergeWishlists" ->
                                 mergeWishlists(guestItems, customerItems)
                          [] op' = "findNewItems" ->
                                 findNewItems(guestItems, customerItems)
                          [] op' = "deduplicateItems" ->
                                 deduplicateItems(guestItems)]_vars

\* mergeWishlists has run as the second call, on lists where a guest item
\* is earlier than the customer item of its key (so a merged object was
\* built), and the caller's lists are as they were.
C35_Witness ==
    /\ op = "mergeWishlists"
    /\ Len(prev) = 2
    /\ \E k \in KeysOf(guestItems) \cap KeysOf(customerItems) :
          /\ GuestStrictlyEarlier(k)
          /\ LastWithKey(result, k) \notin Range(guestItems) \cup Range(customerItems)
    /\ Deref(heap, GuestRef) = guestItems
    /\ Deref(heap, CustomerRef) = customerItems

\* The <<productId, variantId>> pairs of the items of an array.
PairsOf(array) == { IdPairOf(array[i]) : i \in 1..Len(array) }

(***************************************************************************)
(* C36, as stated: in guest mode (no customerId, guest wishlist enabled) with a       *)
(* localStorage that can be read and written, after the initial load and   *)
(* any operations the in-memory collection and the list getStoredItems     *)
(* returns hold the same <<productId, variantId>> pairs, and the stored    *)
(* list, written by addStoredItem and removeStoredItem, repeats no pair.   *)
(***************************************************************************)
C36_MemoryMatchesStorage ==
    (/\ log.mounted
     /\ isGuest(config) /\ enableGuestWishlist(config)
     /\ ls.window /\ ls.mode = "ok")
        => /\ PairsOf(itemsState) = PairsOf(getStoredItems(ls).value)
           /\ PairUnique(getStoredItems(ls).value)

(***************************************************************************)
(* C37, as stated: createItemKey gives two items the same key exactly when *)
(* they have the same productId and the same variantId (an absent          *)
(* variantId the same only as an absent one), the equality that add,       *)
(* remove, isWishlisted, addStoredItem and removeStoredItem test.          *)
(***************************************************************************)
C37_KeyMatchesIdentity ==
    op = "createItemKey" =>
        (result[1] = result[2]
            <=> SameIds(guestItems[1], customerItems[1].productId,
                        customerItems[1].variantId))

(***************************************************************************)
(* C38, as stated: an item that add(P) put in the in-memory collection     *)
(* while a merge-sync request was in flight, and whose own update the      *)
(* backend has answered with success, is still there when the response of  *)
(* that merge-sync has been handled.                                       *)
(***************************************************************************)
C38_AddSurvivesSyncResponse ==
    [][(/\ Last.step = "settle"
        /\ Last.call.kind = "add"
        /\ RemoteSuccess(LastRes)
        /\ HasIds(itemsState, Last.call.arg[1].productId, Last.call.arg[1].variantId)
        /\ log'.last.step = "settle"
        /\ log'.last.call.kind = "sync"
        /\ log'.last.call.id < Last.call.id)
           => HasIds(itemsState', Last.call.arg[1].productId,
                     Last.call.arg[1].variantId)]_vars

(***************************************************************************)
(* C39, as stated: the initial load of an identified provider whose        *)
(* localStorage holds no items, or whose auto-merge is disabled, or that   *)
(* has no apiKey, issues no request and ends with the in-memory collection *)
(* equal to the stored items, isLoading and isSyncing false and error      *)
(* unset.                                                                  *)
(***************************************************************************)
C39_InitWithoutMerge ==
    (/\ Last.step = "loadItems"
     /\ ~isGuest(config)
     /\ \/ getStoredItems(ls).value = <<>>
        \/ ~enableAutoMerge(config)
        \/ config.apiKey = Missing)
        => /\ calls = {}
           /\ log.requests = {}
           /\ itemsState = getStoredItems(ls).value
           /\ ~isLoading
           /\ ~isSyncing
           /\ error = Missing

====
